---- MODULE Spec2Model ----
(***************************************************************************)
(* portbroker: the Anthropic endpoint POST /messages, the provider gateway *)
(* (ProviderService) behind it and the streaming re-emitter                *)
(* (create_message.generate_anthropic_stream).                             *)
(*                                                                         *)
(* One inbound request is followed from the handler's entry to the last    *)
(* byte the client receives.  The providers table is read once per request *)
(* (a snapshot), the upstream answers are chosen by the environment.       *)
(*                                                                         *)
(* The model resolver (StrategyService.map_model) and the two endpoints    *)
(* that call it, POST /map-model and POST /chat/completions, are followed  *)
(* under the specification SpecResolver.                                   *)
(***************************************************************************)
EXTENDS Integers, Sequences, FiniteSets, TLC

\* Rows of the providers table.
MaxProviders == 3
\* Frames one upstream streaming body holds, at most (specification SpecStream).
MaxFrames == 2
\* Rows of the model_strategies table, at most (specification SpecResolver).
MaxStrategies == 1
\* Entries of tool_calls in one upstream response, at most (SpecTranslation).
MaxToolCalls == 2
\* Anthropic responses one round trip produces, at most (SpecTranslation).
MaxResponses == 2
\* Items of one message's content list, at most (SpecTranslation).
MaxBlocks == 2
\* Operations on the cache, at most (SpecCache).
MaxOps == 6
\* InMemoryCache(max_size=3), the capacity the cache is made with.
max_size == 3

VARIABLES
    db,               \* providers table: id -> [name, is_active]
    stream,           \* anthropic_request.stream
    pc,               \* where the request's task stands
    providers,        \* try_providers_until_success: the local list `providers`
    idx,              \* position of the for loop in `providers`
    last_error,       \* try_providers_until_success: `last_error`
    result,           \* what create_message returned or raised
    calls,            \* history: providers call_provider_api was invoked with
    answers,          \* history: what each non-streaming call was answered
    contacts,         \* history: providers an HTTP request was sent to
    inflight,         \* providers with an HTTP exchange open right now
    handle,           \* streaming_info["provider"] (0: none)
    status,           \* status line of the upstream streaming response
    wire,             \* upstream body, not yet read (a sequence of tokens)
    frames,           \* history: the frames the upstream body was made of
    message_started,  \* generate_anthropic_stream: `message_started`
    events,           \* SSE events yielded to the client so far
    raised,           \* history: where the generator's try block raised
    chunks,           \* history: the chunks of aiter_text() that decoded to
                      \* [DONE] or to a JSON value, in order
    strategies,       \* model_strategies table, in row order
    model_list,       \* providers table: id -> Provider.model_list
    model,            \* the model field of the inbound request
    strategy_type,    \* mapping_request.strategy_type of POST /map-model
    mapping_response, \* what StrategyService.map_model returned or raised
    target,           \* what get_provider_for_model returned
    reply,            \* what /map-model or /chat/completions answered
    request_data,     \* history: the bodies posted upstream, [provider, model]
    original_model,   \* chat_completions: `original_model`
    response_data,    \* what a non-streaming /chat/completions returned
    openai_response_data, \* create_message: the provider's JSON
    anthropic_request,    \* the body of a POST /messages
    anthropic_response,   \* what create_message returned for the provider's JSON
    translated,       \* what anthropic_to_openai_request returned or raised
    responses,        \* history: the Anthropic responses returned, in order
    sessions,         \* request id -> the locals of its generator
    cache,            \* InMemoryCache._cache, in insertion order
    evictions,        \* InMemoryCache._evictions
    used,             \* history: the keys by their last use, oldest first
    op,               \* history: the last cache operation and its effect
    claude_model,     \* map_claude_model_to_provider_model: `claude_model`
    provider_config,  \* map_claude_model_to_provider_model: `provider_config`
    provider_model,   \* what map_claude_model_to_provider_model returned
    buffer,           \* generate_stream: `buffer`
    sent,             \* the chunks generate_stream yielded to the client
    http_request,     \* the inbound request: endpoint, credentials, model_id
    api_keys,         \* api_keys table: api_key -> [is_active, expires_at]
    tier_models       \* providers table: id -> small_model, medium_model, big_model

vars == << db, stream, pc, providers, idx, last_error, result, calls, answers,
           contacts, inflight, handle, status, wire, frames, message_started,
           events, raised, chunks, strategies, model_list, model, strategy_type,
           mapping_response, target, reply, request_data, original_model,
           response_data, openai_response_data, anthropic_request,
           anthropic_response, translated, responses, sessions, cache, evictions,
           used, op, claude_model, provider_config, provider_model, buffer, sent,
           http_request, api_keys, tier_models >>

resolverVars == << strategies, model_list, model, strategy_type, mapping_response,
                   target, reply >>

chatVars == << original_model, response_data >>
translationVars == << openai_response_data, anthropic_request, anthropic_response,
                      translated, responses >>
sessionVars == << sessions >>
cacheVars == << cache, evictions, used, op >>
legacyVars == << claude_model, provider_config, provider_model >>
chatStreamVars == << buffer, sent >>
endpointVars == << http_request, api_keys, tier_models >>

gatewayVars == << providers, idx, last_error, calls, answers >>
streamVars == << handle, status, wire, frames, message_started, events, raised, chunks >>

ProviderIds == 1 .. MaxProviders

Range(s) == { s[i] : i \in 1 .. Len(s) }

\* request.model_dump(): the body call_provider_api posts, with the model
\* field as the request carries it.
RequestData(p, m) == [ provider |-> p, model |-> m ]

\* Python's None, a value apart from every text.
None == "<None>"

\* dict.get(key, default)
Get(d, key, default) == IF key \in DOMAIN d THEN d[key] ELSE default

\* Truth value of a str or of None: `if content_text:`, `if finish_reason:`
Truthy(v) == v \notin { None, "" }

(***************************************************************************)
(* TranslationService.anthropic_to_openai_request.  The content of a       *)
(* message is a str or a list, told apart by `py`.                         *)
(***************************************************************************)
Str(text) == [ py |-> "str", value |-> text ]

List(items) == [ py |-> "list", value |-> items ]

\* ChatMessage.role: Literal["system", "user", "assistant", "tool"]
ChatRoles == { "system", "user", "assistant", "tool" }

\* str(msg.role) of a member of `class MessageRole(str, Enum)`: Enum.__str__
\* gives the class and the member's name.
str_role(role) == "MessageRole." \o role

\* f"data:{media_type};base64,{data}"
data_url(source) == "data:" \o source.media_type \o ";base64," \o source.data

\* formatted_content: a text part per text item, an image_url part per image
\* item with a base64 source; an item of another type adds nothing.
RECURSIVE formatted_content(_)
formatted_content(content) ==
    IF content = << >> THEN << >>
    ELSE LET item == Head(content)
             part == IF item.type = "text"
                     THEN << [ type |-> "text", text |-> item.text ] >>
                     ELSE IF item.type = "image" /\ item.source.type = "base64"
                     THEN << [ type |-> "image_url",
                               image_url |-> [ url |-> data_url(item.source) ] ] >>
                     ELSE << >>
         IN  part \o formatted_content(Tail(content))

\* repr() of a content item, as str() of a list prints it.
repr(item) ==
    CASE item.type = "tool_result" ->
            "ToolResultContent(type='tool_result', tool_use_id='" \o item.tool_use_id
                \o "', content='" \o item.content \o "', is_error=None)"
      [] item.type = "text" -> "TextContent(type='text', text='" \o item.text \o "')"
      [] OTHER -> "ImageContent(type='image', source=ImageSource(type='base64', media_type='"
                     \o item.source.media_type \o "', data='" \o item.source.data \o "'))"

RECURSIVE Joined(_)
Joined(content) ==
    IF content = << >> THEN ""
    ELSE IF Tail(content) = << >> THEN repr(Head(content))
    ELSE repr(Head(content)) \o ", " \o Joined(Tail(content))

\* str(content) of a list
str_list(content) == "[" \o Joined(content) \o "]"

\* `content = formatted_content if formatted_content else str(content)`
\* for a list, the str as it is otherwise.
TranslatedContent(content) ==
    IF content.py = "list"
    THEN LET parts == formatted_content(content.value)
         IN  IF parts # << >> THEN List(parts) ELSE Str(str_list(content.value))
    ELSE content

\* ChatMessage(role=..., content=...): a role outside the Literal raises
\* ValidationError.
ChatMessage(role, content) ==
    IF role \in ChatRoles
    THEN [ ok |-> TRUE, message |-> [ role |-> role, content |-> content ] ]
    ELSE [ ok |-> FALSE, message |-> [ role |-> role, content |-> content ] ]

\* `for msg in anthropic_request.messages:` one ChatMessage per message; the
\* first that raises ends the loop.
RECURSIVE TranslatedMessages(_)
TranslatedMessages(messages) ==
    IF messages = << >> THEN [ ok |-> TRUE, messages |-> << >> ]
    ELSE LET made == ChatMessage(str_role(Head(messages).role),
                                 TranslatedContent(Head(messages).content))
             rest == TranslatedMessages(Tail(messages))
         IN  IF made.ok /\ rest.ok
             THEN [ ok |-> TRUE, messages |-> << made.message >> \o rest.messages ]
             ELSE [ ok |-> FALSE, messages |-> << >> ]

\* The ChatCompletionRequest, or the ValidationError of a ChatMessage.
anthropic_to_openai_request(request) ==
    LET system == IF Truthy(request.system)
                  THEN << ChatMessage("system", Str(request.system)).message >>
                  ELSE << >>
        made == TranslatedMessages(request.messages)
    IN  IF made.ok
        THEN [ ok |-> TRUE, error |-> "none", model |-> request.model,
               messages |-> system \o made.messages ]
        ELSE [ ok |-> FALSE, error |-> "ValidationError", model |-> request.model,
               messages |-> << >> ]

\* create_message: openai_request, for a request that carries the model
\* name, no system prompt and an empty list of messages.
openai_request ==
    anthropic_to_openai_request([ model |-> model, system |-> None, messages |-> << >> ])

(***************************************************************************)
(* get_active_providers: WHERE is_active IS TRUE ORDER BY name ASC.        *)
(* Provider.name is a unique column, so the order is total.                *)
(***************************************************************************)
RECURSIVE SortByName(_, _)
SortByName(table, ids) ==
    IF ids = {} THEN << >>
    ELSE LET first == CHOOSE p \in ids : \A q \in ids : table[p].name <= table[q].name
         IN  << first >> \o SortByName(table, ids \ { first })

ActiveIds(table) == { p \in DOMAIN table : table[p].is_active }

get_active_providers(table) == SortByName(table, ActiveIds(table))

(***************************************************************************)
(* Errors and results.                                                     *)
(***************************************************************************)
NoError == [ provider |-> 0, what |-> "none" ]

Error(p, what) == [ provider |-> p, what |-> what ]

NoResult == [ kind |-> "none", provider |-> 0, detail |-> "none", error |-> NoError ]

Response(p) ==
    [ kind |-> "response", provider |-> p, detail |-> "none", error |-> NoError ]

StreamingResponse(p) ==
    [ kind |-> "stream", provider |-> p, detail |-> "none", error |-> NoError ]

\* create_message: except Exception as e -> HTTPException(500, detail = str(e))
HTTPException(detail, err) ==
    [ kind |-> "http500", provider |-> 0, detail |-> detail, error |-> err ]

\* What the client of /messages gets for a raised HTTPException: the app
\* registers no exception handler, and the response is the status code with
\* the JSON body {"detail": detail}.
ErrorResponse(exc) == [ status_code |-> 500, body |-> [ detail |-> exc.detail ] ]

(***************************************************************************)
(* What one upstream does with a non-streaming POST /chat/completions.     *)
(***************************************************************************)
Outcomes ==
    [ exc : { "none" }, status : { 200, 201, 500 } ]
        \cup { [ exc |-> "timeout", status |-> 0 ],
               [ exc |-> "refused", status |-> 0 ],
               [ exc |-> "badjson", status |-> 200 ] }

\* Fault variant of CallError: the status of the response is not looked at.
CallErrorAnyStatus(o) ==
    IF o.exc \in { "timeout", "refused" } THEN o.exc
    ELSE IF o.exc = "badjson" THEN "badjson"
    ELSE "none"

\* call_provider_api, stream = False: the exception the call ends with
\* ("none": it returns response_json).  client.post raises on a timeout or a
\* refused connection, a status other than 200 raises, response.json() raises
\* on a body that is no JSON.
CallError(o) ==
    IF o.exc \in { "timeout", "refused" } THEN o.exc
    ELSE IF o.status # 200 THEN "non200"
    ELSE IF o.exc = "badjson" THEN "badjson"
    ELSE "none"

\* Fault variant of LastError: the first error is kept.
LastErrorFirst(prev, e) == IF prev = NoError THEN e ELSE prev

\* try_providers_until_success: `last_error = e`
LastError(prev, e) == e

\* Fault variant of NextIndex: the failed provider is tried again.
NextIndexRetry(i) == i

\* try_providers_until_success: `continue`, the for loop's next position
NextIndex(i) == i + 1

(***************************************************************************)
(* create_message up to the gateway's answer.                              *)
(***************************************************************************)

\* try_providers_until_success, entry: the list is read, and an empty list
\* raises before any provider is called.
TryProviders ==
    /\ pc = "start"
    /\ providers' = get_active_providers(db)
    /\ idx' = 1
    /\ IF providers' = << >>
       THEN /\ pc' = "done"
            /\ result' = HTTPException("No active providers available", NoError)
       ELSE /\ pc' = "try"
            /\ UNCHANGED result
    /\ UNCHANGED << legacyVars, chatStreamVars, endpointVars >>
    /\ UNCHANGED << db, stream, last_error, calls, answers, contacts, inflight >>
    /\ UNCHANGED << chatVars, translationVars, sessionVars, cacheVars >>
    /\ UNCHANGED streamVars
    /\ UNCHANGED resolverVars
    /\ UNCHANGED request_data

\* call_provider_api(provider, request, stream = False) up to the await of
\* client.post: the request is on its way.
CallProviderApi ==
    /\ pc = "try"
    /\ ~stream
    /\ idx <= Len(providers)
    /\ calls' = Append(calls, providers[idx])
    /\ contacts' = Append(contacts, providers[idx])
    /\ inflight' = inflight \cup { providers[idx] }
    /\ pc' = "await"
    /\ UNCHANGED << legacyVars, chatStreamVars, endpointVars >>
    /\ UNCHANGED << db, stream, providers, idx, last_error, result, answers >>
    /\ UNCHANGED << chatVars, translationVars, sessionVars, cacheVars >>
    /\ UNCHANGED streamVars
    /\ request_data' = Append(request_data, RequestData(providers[idx], openai_request.model))
    /\ UNCHANGED resolverVars

\* The await of client.post returns or raises; try_providers_until_success
\* returns the response, or records the error and goes on with the next
\* provider, or raises when the list is exhausted.
ProviderAnswers ==
    /\ pc = "await"
    /\ \E o \in Outcomes :
          LET p == providers[idx]
              e == CallError(o)
          IN  /\ inflight' = inflight \ { p }
              /\ answers' = Append(answers, o)
              /\ IF e = "none"
                 THEN /\ result' = Response(p)
                      /\ pc' = "done"
                      /\ UNCHANGED << idx, last_error >>
                 ELSE /\ last_error' = LastError(last_error, Error(p, e))
                      /\ idx' = NextIndex(idx)
                      /\ IF idx' <= Len(providers)
                         THEN /\ pc' = "try"
                              /\ UNCHANGED result
                         ELSE /\ pc' = "done"
                              /\ result' = HTTPException("All providers failed",
                                                         last_error')
    /\ UNCHANGED << legacyVars, chatStreamVars, endpointVars >>
    /\ UNCHANGED << db, stream, providers, calls, contacts >>
    /\ UNCHANGED << chatVars, translationVars, sessionVars, cacheVars >>
    /\ UNCHANGED streamVars
    /\ UNCHANGED resolverVars
    /\ UNCHANGED request_data

\* call_provider_api(provider, request, stream = True): no request is sent,
\* the dict {"stream": True, "provider": ...} is returned at once, and
\* create_message returns the StreamingResponse around the generator.
CallProviderApiStream ==
    /\ pc = "try"
    /\ stream
    /\ idx <= Len(providers)
    /\ calls' = Append(calls, providers[idx])
    /\ handle' = providers[idx]
    /\ result' = StreamingResponse(providers[idx])
    /\ pc' = "open"
    /\ UNCHANGED << legacyVars, chatStreamVars, endpointVars >>
    /\ UNCHANGED << db, stream, providers, idx, last_error, answers, contacts, inflight >>
    /\ UNCHANGED << chatVars, translationVars, sessionVars, cacheVars >>
    /\ UNCHANGED << status, wire, frames, message_started, events, raised, chunks >>
    /\ UNCHANGED resolverVars
    /\ UNCHANGED request_data

(***************************************************************************)
(* The upstream's streaming body.  A frame goes over the wire as            *)
(*     data: <payload>\n\n                                                 *)
(* and the body is cut into the chunks of aiter_text() at any place.  The  *)
(* wire is a sequence of tokens: the prefix "data: ", a line feed, the      *)
(* sentinel [DONE], a comment line, and the two halves of a JSON payload    *)
(* (one cut inside a payload leaves two texts that are no JSON, each with   *)
(* an unbalanced brace).                                                    *)
(***************************************************************************)
Tok(t, f) == [ t |-> t, f |-> f ]

PFX == Tok("data: ", "-")
NL == Tok("\n", "-")
DONE == Tok("[DONE]", "-")
COMMENT == Tok(": keep-alive", "-")

\* The JSON payloads an upstream sends (chat.completion.chunk objects, and
\* the error object of a failed request).
JsonFrames ==
    { "text_hi", "text_usage", "text_empty", "final", "finish_only", "usage_only",
      "null_delta", "error_body" }

Obj(choices, delta, content, finish, usage, pt, ct) ==
    [ choices |-> choices, delta |-> delta, content |-> content, finish |-> finish,
      usage |-> usage, prompt_tokens |-> pt, completion_tokens |-> ct ]

Payload(f) ==
    CASE f = "text_hi"     -> Obj("one", "obj", "Hi", "absent", FALSE, 0, 0)
      [] f = "text_usage"   -> Obj("one", "obj", "!", "absent", TRUE, 3, 1)
      [] f = "text_empty"  -> Obj("one", "obj", "", "absent", FALSE, 0, 0)
      [] f = "final"       -> Obj("one", "obj", "absent", "length", TRUE, 3, 1)
      [] f = "finish_only" -> Obj("one", "obj", "absent", "stop", FALSE, 0, 0)
      [] f = "usage_only"  -> Obj("empty", "absent", "absent", "absent", TRUE, 3, 1)
      [] f = "null_delta"  -> Obj("one", "null", "absent", "absent", FALSE, 0, 0)
      [] OTHER             -> Obj("absent", "absent", "absent", "absent", FALSE, 0, 0)

\* The frames of a 200 response's body.
StreamFrames == (JsonFrames \ { "error_body" }) \cup { "done", "comment" }

WireOf(f) ==
    CASE f = "done"       -> << PFX, DONE, NL, NL >>
      [] f = "comment"    -> << COMMENT, NL, NL >>
      [] f = "error_body" -> << Tok("{", f), Tok("}", f) >>
      [] OTHER            -> << PFX, Tok("{", f), Tok("}", f), NL, NL >>

RECURSIVE WireOfAll(_)
WireOfAll(fs) == IF fs = << >> THEN << >> ELSE WireOf(Head(fs)) \o WireOfAll(Tail(fs))

SeqsUpTo(S, n) == UNION { [ 1 .. k -> S ] : k \in 0 .. n }

(***************************************************************************)
(* Text operations of the loop body.                                       *)
(***************************************************************************)
RECURSIVE LStrip(_)
LStrip(s) == IF s # << >> /\ Head(s) = NL THEN LStrip(Tail(s)) ELSE s

RECURSIVE RStrip(_)
RStrip(s) ==
    IF s # << >> /\ s[Len(s)] = NL THEN RStrip(SubSeq(s, 1, Len(s) - 1)) ELSE s

\* str.strip()
Strip(s) == RStrip(LStrip(s))

\* chunk.startswith("data: ")
StartsWithData(s) == s # << >> /\ Head(s) = PFX

\* json.loads: white space around the value is accepted, anything else but
\* one whole value raises JSONDecodeError.
json_loads(s) ==
    LET t == Strip(s)
    IN  IF Len(t) = 2 /\ t[1].t = "{" /\ t[2].t = "}" /\ t[1].f = t[2].f
        THEN [ ok |-> TRUE, f |-> t[1].f ]
        ELSE [ ok |-> FALSE, f |-> "-" ]

(***************************************************************************)
(* SSE events of the Anthropic protocol.                                   *)
(***************************************************************************)
Ev(type, index, text, stop_reason, it, ot, n) ==
    [ type |-> type, index |-> index, text |-> text, stop_reason |-> stop_reason,
      input_tokens |-> it, output_tokens |-> ot, content_blocks |-> n ]

\* "content": [], "usage": {"input_tokens": 0, "output_tokens": 0}
MessageStart == Ev("message_start", -1, "-", "-", 0, 0, 0)

ContentBlockStart == Ev("content_block_start", 0, "", "-", -1, -1, -1)

ContentBlockDelta(text) == Ev("content_block_delta", 0, text, "-", -1, -1, -1)

\* Fault variant of MessageDelta: the two token counts change places.
MessageDeltaSwapped(stop_reason, it, ot) ==
    Ev("message_delta", -1, "-", stop_reason, ot, it, -1)

MessageDelta(stop_reason, it, ot) == Ev("message_delta", -1, "-", stop_reason, it, ot, -1)

MessageStop == Ev("message_stop", -1, "-", "-", -1, -1, -1)

ErrorEvent == Ev("error", -1, "-", "-", -1, -1, -1)

\* Fault variant of map_openai_finish_reason_to_anthropic: "length" is not
\* in the table.
map_openai_finish_reason_without_length(finish_reason) ==
    CASE finish_reason = "stop"           -> "end_turn"
      [] finish_reason = "content_filter" -> "end_turn"
      [] finish_reason = "tool_calls"     -> "tool_use"
      [] OTHER                            -> "end_turn"

map_openai_finish_reason_to_anthropic(finish_reason) ==
    CASE finish_reason = "stop"           -> "end_turn"
      [] finish_reason = "length"         -> "max_tokens"
      [] finish_reason = "content_filter" -> "end_turn"
      [] finish_reason = "tool_calls"     -> "tool_use"
      [] OTHER                            -> "end_turn"

(***************************************************************************)
(* generate_anthropic_stream: the body of the loop over aiter_text().      *)
(***************************************************************************)
Step(emit, started, stop, exc, what, f) ==
    [ emit |-> emit, started |-> started, stop |-> stop, raised |-> exc,
      what |-> what, f |-> f ]

\* Fault variant of OpensBlock: the flag is not consulted.
OpensBlockAlways(started) == TRUE

\* `if not message_started:`
OpensBlock(started) == ~started

\* The decoded object `parsed`: content_block_start/content_block_delta for
\* a non-empty delta.content, message_delta for a usage object; both only
\* under `if parsed.get("choices") and len(parsed["choices"]) > 0`.
\* `"content" in delta` raises TypeError on a delta that is null.
ProcessParsed(f, started) ==
    LET obj == Payload(f)
        hasContent == obj.delta = "obj" /\ obj.content \notin { "absent", "" }
        block == IF hasContent
                 THEN (IF OpensBlock(started) THEN << ContentBlockStart >> ELSE << >>)
                          \o << ContentBlockDelta(obj.content) >>
                 ELSE << >>
        stop_reason == IF obj.finish # "absent"
                       THEN map_openai_finish_reason_to_anthropic(obj.finish)
                       ELSE "end_turn"
        delta == IF obj.usage
                 THEN << MessageDelta(stop_reason, obj.prompt_tokens,
                                      obj.completion_tokens) >>
                 ELSE << >>
    IN  IF obj.choices # "one" THEN Step(<< >>, started, FALSE, FALSE, "json", f)
        ELSE IF obj.delta = "null" THEN Step(<< >>, started, FALSE, TRUE, "json", f)
        ELSE Step(block \o delta, started \/ hasContent, FALSE, FALSE, "json", f)

\* Fault variant of OnJSONDecodeError: the decode error leaves the loop as
\* any other exception does.
OnJSONDecodeErrorRaise(started) ==
    Step(<< >>, started, FALSE, TRUE, "undecodable", "-")

\* `except json.JSONDecodeError: continue`
OnJSONDecodeError(started) ==
    Step(<< >>, started, FALSE, FALSE, "undecodable", "-")

\* One chunk of aiter_text(): `if chunk.strip():` ... `continue`
ProcessChunk(chunk, started) ==
    IF Strip(chunk) = << >> THEN Step(<< >>, started, FALSE, FALSE, "blank", "-")
    ELSE LET data == IF StartsWithData(chunk) THEN Strip(Tail(chunk)) ELSE chunk
         IN  IF Strip(data) = << DONE >>
             THEN Step(<< MessageStop >>, started, TRUE, FALSE, "done", "-")
             ELSE LET parsed == json_loads(data)
                  IN  IF parsed.ok THEN ProcessParsed(parsed.f, started)
                      ELSE OnJSONDecodeError(started)

\* Fault variant of EventsAtOpen: nothing is yielded before the connection.
EventsAtOpenNone == << >>

\* The first yield of the generator.
EventsAtOpen == << MessageStart >>

\* Fault variant of OnException: the exception ends the generator silently.
OnExceptionSilent(evs) == evs

\* `except Exception as e:` yields the error event; the generator ends.
OnException(evs) == Append(evs, ErrorEvent)

\* Fault variant of LeavesLoop: no `break` after message_stop.
LeavesLoopOnError(r) == r.raised

\* `break` after message_stop, and the except clause, leave the loop.
LeavesLoop(r) == r.stop \/ r.raised

(***************************************************************************)
(* The generator, driven by the StreamingResponse.                         *)
(***************************************************************************)

\* message_id, message_started = False, and the yield of message_start.
StreamOpen ==
    /\ pc = "open"
    /\ events' = EventsAtOpen
    /\ message_started' = FALSE
    /\ pc' = "connect"
    /\ UNCHANGED << legacyVars, chatStreamVars, endpointVars >>
    /\ UNCHANGED << db, stream, result, contacts, inflight >>
    /\ UNCHANGED << chatVars, translationVars, sessionVars, cacheVars >>
    /\ UNCHANGED gatewayVars
    /\ UNCHANGED << handle, status, wire, frames, raised, chunks >>
    /\ UNCHANGED resolverVars
    /\ UNCHANGED request_data

\* client.stream("POST", .../chat/completions) raises: connection refused,
\* timeout.
ConnectFails ==
    /\ pc = "connect"
    /\ contacts' = Append(contacts, handle)
    /\ events' = OnException(events)
    /\ raised' = "connect"
    /\ pc' = "closed"
    /\ UNCHANGED << legacyVars, chatStreamVars, endpointVars >>
    /\ UNCHANGED << db, stream, result, inflight >>
    /\ UNCHANGED << chatVars, translationVars, sessionVars, cacheVars >>
    /\ UNCHANGED gatewayVars
    /\ UNCHANGED << handle, status, wire, frames, message_started, chunks >>
    /\ request_data' = Append(request_data, RequestData(handle, openai_request.model))
    /\ UNCHANGED resolverVars

\* client.stream(...) answers 200 with a body of at most `limit` frames.
ConnectOk(limit) ==
    /\ pc = "connect"
    /\ contacts' = Append(contacts, handle)
    /\ inflight' = inflight \cup { handle }
    /\ status' = 200
    /\ \E fs \in SeqsUpTo(StreamFrames, limit) :
          /\ frames' = fs
          /\ wire' = WireOfAll(fs)
    /\ pc' = "streaming"
    /\ UNCHANGED << legacyVars, chatStreamVars, endpointVars >>
    /\ UNCHANGED << db, stream, result >>
    /\ UNCHANGED << chatVars, translationVars, sessionVars, cacheVars >>
    /\ UNCHANGED gatewayVars
    /\ UNCHANGED << handle, message_started, events, raised, chunks >>
    /\ request_data' = Append(request_data, RequestData(handle, openai_request.model))
    /\ UNCHANGED resolverVars

\* client.stream(...) answers with an error status and the error object as
\* body; the status is not looked at.
ConnectStatus ==
    /\ pc = "connect"
    /\ contacts' = Append(contacts, handle)
    /\ inflight' = inflight \cup { handle }
    /\ status' = 500
    /\ frames' = << "error_body" >>
    /\ wire' = WireOfAll(frames')
    /\ pc' = "streaming"
    /\ UNCHANGED << legacyVars, chatStreamVars, endpointVars >>
    /\ UNCHANGED << db, stream, result >>
    /\ UNCHANGED << chatVars, translationVars, sessionVars, cacheVars >>
    /\ UNCHANGED gatewayVars
    /\ UNCHANGED << handle, message_started, events, raised, chunks >>
    /\ request_data' = Append(request_data, RequestData(handle, openai_request.model))
    /\ UNCHANGED resolverVars

\* aiter_text() yields the next chunk, of any length, and the loop body runs.
Read ==
    /\ pc = "streaming"
    /\ wire # << >>
    /\ \E n \in 1 .. Len(wire) :
          LET r == ProcessChunk(SubSeq(wire, 1, n), message_started)
          IN  /\ wire' = SubSeq(wire, n + 1, Len(wire))
              /\ chunks' = IF r.what \in { "done", "json" }
                           THEN Append(chunks, [ what |-> r.what, f |-> r.f ])
                           ELSE chunks
              /\ message_started' = r.started
              /\ events' = IF r.raised THEN OnException(events \o r.emit)
                           ELSE events \o r.emit
              /\ raised' = IF r.raised THEN "process" ELSE raised
              /\ pc' = IF LeavesLoop(r) THEN "closed" ELSE "streaming"
              /\ inflight' = IF LeavesLoop(r) THEN inflight \ { handle } ELSE inflight
    /\ UNCHANGED << legacyVars, chatStreamVars, endpointVars >>
    /\ UNCHANGED << db, stream, result, contacts >>
    /\ UNCHANGED << chatVars, translationVars, sessionVars, cacheVars >>
    /\ UNCHANGED gatewayVars
    /\ UNCHANGED << handle, status, frames >>
    /\ UNCHANGED resolverVars
    /\ UNCHANGED request_data

\* aiter_text() raises: the upstream connection broke, or the read timed out.
ReadError ==
    /\ pc = "streaming"
    /\ events' = OnException(events)
    /\ raised' = "read"
    /\ pc' = "closed"
    /\ inflight' = inflight \ { handle }
    /\ UNCHANGED << legacyVars, chatStreamVars, endpointVars >>
    /\ UNCHANGED << db, stream, result, contacts >>
    /\ UNCHANGED << chatVars, translationVars, sessionVars, cacheVars >>
    /\ UNCHANGED gatewayVars
    /\ UNCHANGED << handle, status, wire, frames, message_started, chunks >>
    /\ UNCHANGED resolverVars
    /\ UNCHANGED request_data

\* aiter_text() is exhausted: the upstream closed the body.
EndOfStream ==
    /\ pc = "streaming"
    /\ wire = << >>
    /\ pc' = "closed"
    /\ inflight' = inflight \ { handle }
    /\ UNCHANGED << legacyVars, chatStreamVars, endpointVars >>
    /\ UNCHANGED << db, stream, result, contacts >>
    /\ UNCHANGED << chatVars, translationVars, sessionVars, cacheVars >>
    /\ UNCHANGED gatewayVars
    /\ UNCHANGED << handle, status, wire, frames, message_started, events, raised, chunks >>
    /\ UNCHANGED resolverVars
    /\ UNCHANGED request_data

(***************************************************************************)
(* StrategyService: the model resolver.                                    *)
(***************************************************************************)
\* The model names of the configuration; the first two differ in case only.
ModelNames == { "gpt-4", "GPT-4", "gpt-4o", "gpt-4o-mini" }

\* str.lower()
Lower(m) == IF m = "GPT-4" THEN "gpt-4" ELSE m

StrategyTypes == { "anthropic", "openai" }

\* for tier in ["large", "medium", "small"]
Tiers == << "large", "medium", "small" >>

\* A row of strategy_provider_mappings.
Mapping(provider_id, priority, is_active, large, medium, small, selected) ==
    [ provider_id |-> provider_id, priority |-> priority, is_active |-> is_active,
      large_models |-> large, medium_models |-> medium, small_models |-> small,
      selected_models |-> selected ]

\* getattr(mapping, f"{tier}_models", [])
TierModels(mapping, tier) ==
    CASE tier = "large"    -> mapping.large_models
      [] tier = "medium"   -> mapping.medium_models
      [] tier = "small"    -> mapping.small_models
      [] tier = "selected" -> mapping.selected_models
      [] OTHER             -> << >>

\* ModelMappingResponse
ModelMappingResponse(mapped_model, provider_id, tier_used, fallback_used) ==
    [ ok |-> TRUE, mapped_model |-> mapped_model, provider_id |-> provider_id,
      tier_used |-> tier_used, fallback_used |-> fallback_used, error |-> "none" ]

\* raise ValueError(...)
ValueError(message) ==
    [ ok |-> FALSE, mapped_model |-> "-", provider_id |-> 0, tier_used |-> "-",
      fallback_used |-> FALSE, error |-> message ]

NoResponse ==
    [ ok |-> FALSE, mapped_model |-> "-", provider_id |-> 0, tier_used |-> "-",
      fallback_used |-> FALSE, error |-> "not called" ]

\* get_strategies(db, strategy_type): WHERE strategy_type = :type
get_strategies(type) ==
    SelectSeq(strategies, LAMBDA s : s.strategy_type = type)

\* sorted(..., key=lambda x: x.priority): stable, ascending.
RECURSIVE SortByPriority(_)
SortByPriority(ms) ==
    IF ms = << >> THEN << >>
    ELSE LET i == CHOOSE i \in 1 .. Len(ms) : \A j \in 1 .. Len(ms) :
                      \/ ms[i].priority < ms[j].priority
                      \/ ms[i].priority = ms[j].priority /\ i <= j
         IN  << ms[i] >> \o SortByPriority(SubSeq(ms, 1, i - 1)
                                            \o SubSeq(ms, i + 1, Len(ms)))

\* sorted([m for m in strategy.provider_mappings if m.is_active], ...)
ActiveMappings(strategy) ==
    SortByPriority(SelectSeq(strategy.provider_mappings, LAMBDA m : m.is_active))

\* active_providers.get(mapping.provider_id); `if not provider: continue`
WithActiveProvider(ms) ==
    SelectSeq(ms, LAMBDA m : m.provider_id \in DOMAIN db /\ db[m.provider_id].is_active)

RECURSIVE Concat(_)
Concat(ss) == IF ss = << >> THEN << >> ELSE Head(ss) \o Concat(Tail(ss))

\* for model in models
TierCandidates(mapping, tier) ==
    [ i \in 1 .. Len(TierModels(mapping, tier)) |->
        [ provider_id |-> mapping.provider_id, tier |-> tier,
          model |-> TierModels(mapping, tier)[i] ] ]

\* Fault variant of Candidates: the tiers are the outer loop, the mappings
\* the inner one.
CandidatesTierOuter(ms, tiers) ==
    Concat([ t \in 1 .. Len(tiers) |->
               Concat([ k \in 1 .. Len(ms) |-> TierCandidates(ms[k], tiers[t]) ]) ])

\* for mapping in provider_mappings: for tier in tiers: for model in models:
\* the (provider, tier, model) triples in the order the loops visit them.
Candidates(ms, tiers) ==
    Concat([ k \in 1 .. Len(ms) |->
               Concat([ t \in 1 .. Len(tiers) |-> TierCandidates(ms[k], tiers[t]) ]) ])

\* Fault variant of Available: the provider's model_list is not looked at.
AvailableAlways(c) == TRUE

\* `model in provider.model_list`
Available(c) == c.model \in model_list[c.provider_id]

\* Fault variant of ExactMatch: the names are compared as they are.
ExactMatchCaseSensitive(requested_model, c) == requested_model = c.model /\ Available(c)

\* `requested_model.lower() == model.lower() and model in provider.model_list`
ExactMatch(requested_model, c) == Lower(requested_model) = Lower(c.model) /\ Available(c)

\* Fault variant of FallbackAllowed: the fallback pass always runs.
FallbackAlways(strategy) == TRUE

\* `if strategy.fallback_enabled:`
FallbackAllowed(strategy) == strategy.fallback_enabled

\* tier_used=tier in _map_anthropic_model, tier_used="openai" in
\* _map_openai_model.
TierLabel(type, c) == IF type = "openai" THEN "openai" ELSE c.tier

\* The exact-match pass and the fallback pass, which _map_anthropic_model
\* and _map_openai_model share: the first exact match in the order of
\* `exact_order`, else, with fallback, the first available candidate in the
\* order of `fallback_order`.
TwoPasses(strategy, requested_model, exact_order, fallback_order) ==
    LET provider_mappings == ActiveMappings(strategy)
        usable == WithActiveProvider(provider_mappings)
        exact == SelectSeq(Candidates(usable, exact_order),
                           LAMBDA c : ExactMatch(requested_model, c))
        fallback == SelectSeq(Candidates(usable, fallback_order), Available)
        type == strategy.strategy_type
    IN  IF provider_mappings = << >>
        THEN ValueError("No active providers found for strategy")
        ELSE IF exact # << >>
        THEN ModelMappingResponse(exact[1].model, exact[1].provider_id,
                                  TierLabel(type, exact[1]), FALSE)
        ELSE IF FallbackAllowed(strategy) /\ fallback # << >>
        THEN ModelMappingResponse(fallback[1].model, fallback[1].provider_id,
                                  TierLabel(type, fallback[1]), TRUE)
        ELSE ValueError("No suitable model found")

\* ModelMappingRequest: requested_model, strategy_type and the optional
\* preferred_tier (None when the request leaves it out).
ModelMappingRequest(requested_model, type, preferred_tier) ==
    [ requested_model |-> requested_model, strategy_type |-> type,
      preferred_tier |-> preferred_tier ]

PreferredTiers == { None, "large", "medium", "small" }

\* The order of the fallback pass with the preferred tier tried first.
FallbackOrderPreferredFirst(strategy, preferred_tier) ==
    LET preferred == IF preferred_tier = None THEN "large" ELSE preferred_tier
    IN  << preferred >> \o SelectSeq(strategy.fallback_order, LAMBDA t : t # preferred)

\* `preferred_tier = mapping_request.preferred_tier or "large"` and
\* `fallback_order = strategy_fallback_order`: preferred_tier is assigned
\* and not read again, the order is the strategy's.
FallbackOrder(strategy, preferred_tier) == strategy.fallback_order

\* _map_anthropic_model: the tiers large, medium, small for the exact
\* match, strategy.fallback_order for the fallback.
map_anthropic_model(strategy, mapping_request) ==
    TwoPasses(strategy, mapping_request.requested_model, Tiers,
              FallbackOrder(strategy, mapping_request.preferred_tier))

\* _map_openai_model: mapping.selected_models in both passes.
map_openai_model(strategy, mapping_request) ==
    TwoPasses(strategy, mapping_request.requested_model, << "selected" >>,
              << "selected" >>)

\* StrategyService.map_model(db, mapping_request)
map_model(mapping_request) ==
    LET type == mapping_request.strategy_type
        found == get_strategies(type)
    IN  IF found = << >> THEN ValueError("No strategies found for type")
        ELSE IF type = "anthropic" THEN map_anthropic_model(found[1], mapping_request)
        ELSE IF type = "openai" THEN map_openai_model(found[1], mapping_request)
        ELSE ValueError("Unsupported strategy type")

(***************************************************************************)
(* The endpoints that resolve a model.                                     *)
(***************************************************************************)
NoTarget == [ provider |-> 0, mapped_model |-> "-" ]

NoReply == [ status |-> 0, detail |-> "-" ]

Reply(status_code, detail) == [ status |-> status_code, detail |-> detail ]

\* POST /map-model: the response of StrategyService.map_model, or
\* `except ValueError as e: raise HTTPException(status_code=400, ...)`.
MapModelEndpoint ==
    /\ pc = "map"
    /\ \E preferred_tier \in PreferredTiers :
          mapping_response' =
              map_model(ModelMappingRequest(model, strategy_type, preferred_tier))
    /\ reply' = IF mapping_response'.ok THEN Reply(200, "-")
                ELSE Reply(400, mapping_response'.error)
    /\ pc' = "done"
    /\ UNCHANGED << legacyVars, chatStreamVars, endpointVars >>
    /\ UNCHANGED << db, stream, result, contacts, inflight >>
    /\ UNCHANGED << chatVars, translationVars, sessionVars, cacheVars >>
    /\ UNCHANGED gatewayVars
    /\ UNCHANGED streamVars
    /\ UNCHANGED << strategies, model_list, model, strategy_type, target, request_data >>

\* get_provider_for_model, `except Exception as e:`: "Fallback to old
\* behavior", the first active provider and the requested model as it is.
OnMappingFailure(requested_model, error) ==
    LET active == get_active_providers(db)
    IN  IF active = << >>
        THEN [ ok |-> FALSE, provider |-> 0, mapped_model |-> "-",
               error |-> "No active providers available" ]
        ELSE [ ok |-> TRUE, provider |-> active[1], mapped_model |-> requested_model,
               error |-> "none" ]

\* chat_completions up to the return of get_provider_for_model(db,
\* request.model, "openai"); an exception that leaves it is answered by
\* HTTPException(status_code=500).
GetProviderForModel ==
    /\ pc = "chat"
    /\ mapping_response' = map_model(ModelMappingRequest(model, "openai", None))
    /\ LET r == mapping_response'
           found == IF r.ok
                    THEN [ ok |-> TRUE, provider |-> r.provider_id,
                           mapped_model |-> r.mapped_model, error |-> "none" ]
                    ELSE OnMappingFailure(model, r.error)
       IN  IF found.ok
           THEN /\ target' = [ provider |-> found.provider,
                               mapped_model |-> found.mapped_model ]
                /\ pc' = "call"
                /\ UNCHANGED reply
           ELSE /\ reply' = Reply(500, found.error)
                /\ pc' = "done"
                /\ UNCHANGED target
    /\ UNCHANGED << legacyVars, chatStreamVars, endpointVars >>
    /\ UNCHANGED << db, stream, result, contacts, inflight >>
    /\ UNCHANGED << chatVars, translationVars, sessionVars, cacheVars >>
    /\ UNCHANGED gatewayVars
    /\ UNCHANGED streamVars
    /\ UNCHANGED << strategies, model_list, model, strategy_type, request_data >>

\* chat_completions: original_model = request.model, request.model =
\* mapped_model, and call_provider_api
\* (or, for a streaming request, generate_stream) posts the request to the
\* provider.
ChatCallProvider ==
    /\ pc = "call"
    /\ model' = target.mapped_model
    /\ request_data' = Append(request_data, RequestData(target.provider, model'))
    /\ contacts' = Append(contacts, target.provider)
    /\ original_model' = model
    /\ pc' = "posted"
    /\ UNCHANGED << legacyVars, chatStreamVars, endpointVars >>
    /\ UNCHANGED << db, stream, result, inflight >>
    /\ UNCHANGED << response_data, translationVars, sessionVars, cacheVars >>
    /\ UNCHANGED gatewayVars
    /\ UNCHANGED streamVars
    /\ UNCHANGED << strategies, model_list, strategy_type, mapping_response, target, reply >>

\* The JSON of a provider's 200 answer: its model field names the model the
\* provider was asked for.
ProviderJson(posted) == [ model |-> posted.model ]

\* chat_completions, non-streaming, from the answer of the provider to the
\* handler's return: `response_data = await call_provider_api(...)`,
\* `return response_data`; a status other than 200 raises, and the handler
\* answers HTTPException(status_code=500).
ChatReturn ==
    /\ pc = "posted"
    /\ ~stream
    /\ \E status_code \in { 200, 500 } :
          IF status_code = 200
          THEN /\ response_data' = ProviderJson(request_data[Len(request_data)])
               /\ reply' = Reply(200, "-")
          ELSE /\ reply' = Reply(500, "Provider returned status 500")
               /\ UNCHANGED response_data
    /\ pc' = "returned"
    /\ UNCHANGED << legacyVars, chatStreamVars, endpointVars >>
    /\ UNCHANGED << db, stream, result, contacts, inflight >>
    /\ UNCHANGED << original_model, translationVars, sessionVars, cacheVars >>
    /\ UNCHANGED gatewayVars
    /\ UNCHANGED streamVars
    /\ UNCHANGED << strategies, model_list, model, strategy_type, mapping_response,
                    target, request_data >>

(***************************************************************************)
(* create_message, non-streaming: the provider's JSON becomes an Anthropic *)
(* response.  A JSON object is a function from its keys; a key that is not *)
(* in its domain is absent.                                                *)
(***************************************************************************)

\* The texts an upstream sends as function.arguments.
Arguments == { "{}", "{\"q\": 1}", "{\"q\": ", "[1]" }

\* A parsed JSON value: a dict or a list, with its items.
PyValue(py, items) == [ ok |-> TRUE, py |-> py, items |-> items ]

\* json.loads(function.get("arguments", "{}")): the text of an object gives
\* a dict, the text of an array a list, a text cut short raises
\* JSONDecodeError.
json_loads_arguments(arguments) ==
    CASE arguments = "{}"          -> PyValue("dict", {})
      [] arguments = "{\"q\": 1}"  -> PyValue("dict", { << "q", 1 >> })
      [] arguments = "[1]"         -> PyValue("list", { << "0", 1 >> })
      [] OTHER                     -> [ ok |-> FALSE, py |-> "JSONDecodeError", items |-> {} ]

\* json.dumps(item_dict.get("input", {}))
json_dumps(value) ==
    CASE value.py = "dict" /\ value.items = {}               -> "{}"
      [] value.py = "dict" /\ value.items = { << "q", 1 >> } -> "{\"q\": 1}"
      [] OTHER                                               -> "[1]"

TextContent(text) == [ type |-> "text", text |-> text ]

\* ToolUseContent(id=..., name=..., input=...); `input: Dict[str, Any]`
\* rejects a value that is no dict, `id: str` and `name: str` reject None.
ToolUseContent(id, name, input) ==
    IF input.py = "dict" /\ id # None /\ name # None
    THEN [ ok |-> TRUE,
           block |-> [ type |-> "tool_use", id |-> id, name |-> name,
                       input |-> [ py |-> input.py, items |-> input.items ] ] ]
    ELSE [ ok |-> FALSE, block |-> "ValidationError" ]

\* Fault variant of ToolUseBlocks: a tool call whose arguments do not
\* parse, or do not validate, is left out.
RECURSIVE ToolUseBlocksSkipping(_)
ToolUseBlocksSkipping(tool_calls) ==
    IF tool_calls = << >> THEN [ ok |-> TRUE, blocks |-> << >>, error |-> "none" ]
    ELSE LET function == Get(Head(tool_calls), "function", << >>)
             input == json_loads_arguments(Get(function, "arguments", "{}"))
             made == IF input.ok
                     THEN ToolUseContent(Get(Head(tool_calls), "id", None),
                                         Get(function, "name", None), input)
                     ELSE [ ok |-> FALSE, block |-> "JSONDecodeError" ]
             rest == ToolUseBlocksSkipping(Tail(tool_calls))
         IN  IF made.ok
             THEN [ ok |-> TRUE, blocks |-> << made.block >> \o rest.blocks,
                    error |-> "none" ]
             ELSE rest

\* `for tool_call in message["tool_calls"]:` one ToolUseContent per entry;
\* the first entry that raises ends the loop.
RECURSIVE ToolUseBlocks(_)
ToolUseBlocks(tool_calls) ==
    IF tool_calls = << >> THEN [ ok |-> TRUE, blocks |-> << >>, error |-> "none" ]
    ELSE LET function == Get(Head(tool_calls), "function", << >>)
             input == json_loads_arguments(Get(function, "arguments", "{}"))
             made == IF input.ok
                     THEN ToolUseContent(Get(Head(tool_calls), "id", None),
                                         Get(function, "name", None), input)
                     ELSE [ ok |-> FALSE, block |-> "JSONDecodeError" ]
             rest == ToolUseBlocks(Tail(tool_calls))
         IN  IF ~made.ok
             THEN [ ok |-> FALSE, blocks |-> << >>, error |-> made.block ]
             ELSE IF ~rest.ok THEN rest
             ELSE [ ok |-> TRUE, blocks |-> << made.block >> \o rest.blocks,
                    error |-> "none" ]

\* Fault variant of TextBlocks: the text block is made for an empty text too.
TextBlocksAlways(content_text) ==
    << TextContent(IF content_text = None THEN "" ELSE content_text) >>

\* `if content_text: content_blocks.append(TextContent(text=content_text))`
TextBlocks(content_text) ==
    IF Truthy(content_text) THEN << TextContent(content_text) >> ELSE << >>

\* create_message: content_blocks.  message.get("tool_calls") is falsy for
\* an absent key, for null and for an empty list alike.
content_blocks(data) ==
    IF Get(data, "choices", << >>) = << >>
    THEN [ ok |-> TRUE, blocks |-> << >>, error |-> "none" ]
    ELSE LET message == Get(data.choices[1], "message", << >>)
             text == TextBlocks(Get(message, "content", ""))
             tools == ToolUseBlocks(Get(message, "tool_calls", << >>))
         IN  IF tools.ok
             THEN [ ok |-> TRUE, blocks |-> text \o tools.blocks, error |-> "none" ]
             ELSE tools

\* create_message: stop_reason=StopReason.end_turn, replaced by the mapped
\* choices[0].finish_reason `if finish_reason:`.
stop_reason_of(data) ==
    IF Get(data, "choices", << >>) = << >> THEN "end_turn"
    ELSE LET finish_reason == Get(data.choices[1], "finish_reason", None)
         IN  IF Truthy(finish_reason)
             THEN map_openai_finish_reason_to_anthropic(finish_reason)
             ELSE "end_turn"

\* AnthropicResponse(...).model_dump()
AnthropicResponse(id, content, anthropic_model, stop_reason, input_tokens, output_tokens) ==
    [ id |-> id, type |-> "message", role |-> "assistant", content |-> content,
      model |-> anthropic_model, stop_reason |-> stop_reason, stop_sequence |-> None,
      usage |-> [ input_tokens |-> input_tokens, output_tokens |-> output_tokens ] ]

\* What the handler hands to the client: the dumped response, or
\* `except Exception as e: raise HTTPException(status_code=500, detail=str(e))`.
Returned(body) == [ kind |-> "message", status_code |-> 200, body |-> body ]

Raised500(detail) == [ kind |-> "http_exception", status_code |-> 500, body |-> detail ]

NotReturned == [ kind |-> "none", status_code |-> 0, body |-> "-" ]

\* create_message from the provider's JSON to the return; generated_id is
\* f"msg_{uuid.uuid4().hex[:8]}".
TranslateResponse(data, anthropic_model, generated_id) ==
    LET made == content_blocks(data)
        usage == Get(data, "usage", << >>)
    IN  IF ~made.ok THEN Raised500(made.error)
        ELSE Returned(AnthropicResponse(Get(data, "id", generated_id), made.blocks,
                                        anthropic_model, stop_reason_of(data),
                                        Get(usage, "prompt_tokens", 0),
                                        Get(usage, "completion_tokens", 0)))

(***************************************************************************)
(* TranslationService.anthropic_to_openai_response                         *)
(***************************************************************************)

\* `content += item_dict.get("text", "")` over the text items.
RECURSIVE TextOf(_)
TextOf(content) ==
    IF content = << >> THEN ""
    ELSE IF Head(content).type = "text" THEN Head(content).text \o TextOf(Tail(content))
    ELSE TextOf(Tail(content))

\* The tool_use items, each as {"id", "type": "function", "function":
\* {"name", "arguments": json.dumps(input)}}.
RECURSIVE ToolCallsOf(_)
ToolCallsOf(content) ==
    IF content = << >> THEN << >>
    ELSE IF Head(content).type = "tool_use"
    THEN << [ id |-> Head(content).id, type |-> "function",
              function |-> [ name |-> Head(content).name,
                             arguments |-> json_dumps(Head(content).input) ] ] >>
             \o ToolCallsOf(Tail(content))
    ELSE ToolCallsOf(Tail(content))

\* ChatMessage(role="assistant", content=content, tool_calls=tool_calls);
\* tool_calls stays None without a tool_use item: the key is left out, as
\* null and an absent key read alike.
AssistantMessage(content, tool_calls) ==
    IF tool_calls = << >> THEN [ role |-> "assistant", content |-> content ]
    ELSE [ role |-> "assistant", content |-> content, tool_calls |-> tool_calls ]

\* Fault variant of FinishReasonOf: the stop reason is put back into the
\* OpenAI vocabulary.
FinishReasonBack(stop_reason) ==
    CASE stop_reason = "max_tokens" -> "length"
      [] stop_reason = "tool_use"   -> "tool_calls"
      [] OTHER                      -> "stop"

\* Choice(index=0, message=message, finish_reason=anthropic_response.stop_reason)
FinishReasonOf(stop_reason) == stop_reason

\* ChatCompletionResponse(...).model_dump(); created is int(time.time()).
anthropic_to_openai_response(response, model_name) ==
    [ id |-> response.id, object |-> "chat.completion", created |-> "time",
      model |-> model_name,
      choices |-> << [ index |-> 0,
                       message |-> AssistantMessage(TextOf(response.content),
                                                    ToolCallsOf(response.content)),
                       finish_reason |-> FinishReasonOf(response.stop_reason) ] >>,
      usage |-> [ prompt_tokens |-> response.usage.input_tokens,
                  completion_tokens |-> response.usage.output_tokens,
                  total_tokens |-> response.usage.input_tokens
                                     + response.usage.output_tokens ] ]

\* What uuid.uuid4() makes of the id of a response that carries none.
GeneratedIds == { "msg_1f0c9a2e", "msg_77b3d510" }

\* create_message, non-streaming, from the return of
\* try_providers_until_success to the handler's return or raise.
CreateMessageResponse ==
    /\ pc = "respond"
    /\ \E generated_id \in GeneratedIds :
          anthropic_response' = TranslateResponse(openai_response_data,
                                                  anthropic_request.model, generated_id)
    /\ responses' = IF anthropic_response'.kind = "message"
                    THEN Append(responses, anthropic_response'.body)
                    ELSE responses
    /\ pc' = "responded"
    /\ UNCHANGED << legacyVars, chatStreamVars, endpointVars >>
    /\ UNCHANGED << db, stream, result, contacts, inflight, request_data >>
    /\ UNCHANGED << gatewayVars, streamVars, resolverVars >>
    /\ UNCHANGED << chatVars, sessionVars, cacheVars >>
    /\ UNCHANGED << openai_response_data, anthropic_request, translated >>

\* The response goes back through anthropic_to_openai_response, and the
\* OpenAI response it gives is handed to the translation again.
AnthropicToOpenaiResponse ==
    /\ pc = "responded"
    /\ anthropic_response.kind = "message"
    /\ Len(responses) < MaxResponses
    /\ openai_response_data' =
          anthropic_to_openai_response(anthropic_response.body, anthropic_request.model)
    /\ pc' = "respond"
    /\ UNCHANGED << legacyVars, chatStreamVars, endpointVars >>
    /\ UNCHANGED << db, stream, result, contacts, inflight, request_data >>
    /\ UNCHANGED << gatewayVars, streamVars, resolverVars >>
    /\ UNCHANGED << chatVars, sessionVars, cacheVars >>
    /\ UNCHANGED << anthropic_request, anthropic_response, translated, responses >>

\* What anthropic_to_openai_request gave, before it was called.
NotTranslated == [ ok |-> FALSE, error |-> "not called", model |-> "-", messages |-> << >> ]

\* create_message: `openai_request =
\* TranslationService.anthropic_to_openai_request(anthropic_request)`
AnthropicToOpenaiRequest ==
    /\ pc = "translate"
    /\ translated' = anthropic_to_openai_request(anthropic_request)
    /\ pc' = "translated"
    /\ UNCHANGED << legacyVars, chatStreamVars, endpointVars >>
    /\ UNCHANGED << db, stream, result, contacts, inflight, request_data >>
    /\ UNCHANGED << gatewayVars, streamVars, resolverVars >>
    /\ UNCHANGED << chatVars, sessionVars, cacheVars >>
    /\ UNCHANGED << openai_response_data, anthropic_request, anthropic_response,
                    responses >>

(***************************************************************************)
(* TranslationService.map_claude_model_to_provider_model, the model-name   *)
(* mapping of one provider's configuration.  `in` looks for a substring,   *)
(* so a name is the sequence of its characters here.                       *)
(***************************************************************************)
\* str.lower(), one character
lower_char(c) ==
    CASE c = "A" -> "a"
         [] c = "B" -> "b"
         [] c = "C" -> "c"
         [] c = "D" -> "d"
         [] c = "E" -> "e"
         [] c = "F" -> "f"
         [] c = "G" -> "g"
         [] c = "H" -> "h"
         [] c = "I" -> "i"
         [] c = "J" -> "j"
         [] c = "K" -> "k"
         [] c = "L" -> "l"
         [] c = "M" -> "m"
         [] c = "N" -> "n"
         [] c = "O" -> "o"
         [] c = "P" -> "p"
         [] c = "Q" -> "q"
         [] c = "R" -> "r"
         [] c = "S" -> "s"
         [] c = "T" -> "t"
         [] c = "U" -> "u"
         [] c = "V" -> "v"
         [] c = "W" -> "w"
         [] c = "X" -> "x"
         [] c = "Y" -> "y"
         [] c = "Z" -> "z"
         [] OTHER -> c

\* str.lower()
lower(text) == [ i \in 1 .. Len(text) |-> lower_char(text[i]) ]

\* `p in text` of two strs
Contains(p, text) ==
    \E i \in 1 .. Len(text) - Len(p) + 1 : SubSeq(text, i, i + Len(p) - 1) = p

\* small_patterns, medium_patterns, big_patterns
small_patterns == { << "m", "i", "n", "i" >>, << "s", "m", "a", "l", "l" >>, << "h", "a", "i", "k", "u" >>, << "3", ".", "5" >>, << "4", "o", "-", "m", "i", "n", "i" >> }
medium_patterns == { << "4", "o" >>, << "s", "o", "n", "n", "e", "t" >>, << "m", "e", "d", "i", "u", "m" >>, << "t", "u", "r", "b", "o" >> }
big_patterns == { << "4" >>,
                  << "g", "p", "t", "-", "4" >>,
                  << "o", "p", "u", "s" >>,
                  << "l", "a", "r", "g", "e" >>,
                  << "p", "r", "e", "v", "i", "e", "w" >> }

\* defaults = {"small": "gpt-4o-mini", "medium": "gpt-4o", "big": "gpt-4o"}
defaults(size_category) ==
    IF size_category = "small" THEN << "g", "p", "t", "-", "4", "o", "-", "m", "i", "n", "i" >>
    ELSE << "g", "p", "t", "-", "4", "o" >>

\* [m for m in model_list if any(p in m.lower() for p in patterns)]
Matching(model_list_, patterns) ==
    SelectSeq(model_list_, LAMBDA m : \E p \in patterns : Contains(p, lower(m)))

\* _select_model_from_list without the branch for an empty list: the first
\* entry of a list that has none.
select_model_from_list_no_defaults(model_list_, size_category) ==
    LET candidates == Matching(model_list_,
                               CASE size_category = "small" -> small_patterns
                                 [] size_category = "medium" -> medium_patterns
                                 [] size_category = "big" -> big_patterns)
    IN  IF candidates # << >> THEN candidates[1]
        ELSE IF model_list_ # << >> THEN model_list_[1] ELSE << >>

\* TranslationService._select_model_from_list
select_model_from_list(model_list_, size_category) ==
    IF model_list_ = << >> THEN defaults(size_category)
    ELSE LET candidates ==
                 Matching(model_list_,
                          CASE size_category = "small" -> small_patterns
                            [] size_category = "medium" -> medium_patterns
                            [] size_category = "big" -> big_patterns)
         IN  IF candidates # << >> THEN candidates[1] ELSE model_list_[1]

\* `provider_config.get(field) or _select_model_from_list(model_list, size)`:
\* a field that is missing, None or "" is falsy.  A field that is None is a
\* field that is missing here.
TierModel(config, field, size_category) ==
    IF field \in DOMAIN config /\ config[field] # << >> THEN config[field]
    ELSE select_model_from_list(Get(config, "model_list", << >>), size_category)

\* TranslationService.map_claude_model_to_provider_model
map_claude_model_to_provider_model(claude_model_, config) ==
    LET name == lower(claude_model_)
    IN  IF Contains(<< "h", "a", "i", "k", "u" >>, name)
        THEN TierModel(config, "small_model", "small")
        ELSE IF Contains(<< "s", "o", "n", "n", "e", "t" >>, name)
        THEN TierModel(config, "medium_model", "medium")
        ELSE IF Contains(<< "o", "p", "u", "s" >>, name)
        THEN TierModel(config, "big_model", "big")
        ELSE TierModel(config, "medium_model", "medium")

\* result = TranslationService.map_claude_model_to_provider_model(
\*     claude_model, provider_config)
MapClaudeModel ==
    /\ pc = "legacy"
    /\ provider_model' = map_claude_model_to_provider_model(claude_model, provider_config)
    /\ pc' = "mapped"
    /\ UNCHANGED << claude_model, provider_config >>
    /\ UNCHANGED << chatStreamVars, endpointVars, db, stream, result, contacts, inflight, request_data >>
    /\ UNCHANGED << gatewayVars, streamVars, resolverVars >>
    /\ UNCHANGED << chatVars, translationVars, sessionVars, cacheVars >>

(***************************************************************************)
(* chat_completions.generate_stream: the generator behind a streaming      *)
(* POST /chat/completions.  The upstream body is the token sequence `wire`, *)
(* `buffer` holds the text not yet yielded.                                *)
(***************************************************************************)
\* buffer.find('\n\n'): the position of the first blank line, 0 for -1
Find2NL(text) ==
    IF \E i \in 1 .. Len(text) - 1 : text[i] = NL /\ text[i + 1] = NL
    THEN CHOOSE i \in 1 .. Len(text) - 1 :
             /\ text[i] = NL /\ text[i + 1] = NL
             /\ \A j \in 1 .. i - 1 : ~(text[j] = NL /\ text[j + 1] = NL)
    ELSE 0

\* `while '\n\n' in buffer:` the events taken off the buffer, in order, and
\* what is left of it.
RECURSIVE Drain(_, _)
Drain(text, emit) ==
    LET event_end == Find2NL(text)
        event_text == SubSeq(text, 1, event_end - 1)
        rest == SubSeq(text, event_end + 2, Len(text))
    IN  IF event_end = 0 THEN [ buffer |-> text, emit |-> emit ]
        ELSE IF Strip(event_text) # << >>
        THEN Drain(rest, Append(emit, event_text \o << NL, NL >>))
        ELSE Drain(rest, emit)

\* The loop body with the test of the chunk left out: every chunk goes to
\* the buffer.
OnChunkKeepingBlank(buf, chunk) == Drain(buf \o chunk, << >>)

\* The body of `async for chunk in response.aiter_text():`
OnChunk(buf, chunk) ==
    IF Strip(chunk) # << >> THEN Drain(buf \o chunk, << >>)
    ELSE [ buffer |-> buf, emit |-> << >> ]

\* `if buffer.strip(): yield f"{buffer}\n\n"` after the loop
Remaining(buf) == IF Strip(buf) # << >> THEN << buf \o << NL, NL >> >> ELSE << >>

\* error_chunk = f"data: {json.dumps({'error': str(e)})}\n\n"
error_chunk == << PFX, Tok("{", "error"), Tok("}", "error"), NL, NL >>

\* done_chunk = "data: [DONE]\n\n"
done_chunk == << PFX, DONE, NL, NL >>

\* The finally clause without its yield.
FinallyNothing == << >>

\* `finally:` yields done_chunk, however the try block was left.
Finally == << done_chunk >>

\* The frames an upstream sends on /chat/completions.
ChatFrames == { "text_hi", "final", "done" }

ChatStreamOnly ==
    /\ UNCHANGED << legacyVars, endpointVars, db, stream, result, contacts, inflight,
                    request_data >>
    /\ UNCHANGED << gatewayVars, resolverVars >>
    /\ UNCHANGED << handle, message_started, events, chunks >>
    /\ UNCHANGED << chatVars, translationVars, sessionVars, cacheVars >>

\* client.stream("POST", .../chat/completions) raises.
ChatConnectFails ==
    /\ pc = "chat_connect"
    /\ raised' = "connect"
    /\ sent' = sent \o << error_chunk >> \o Finally
    /\ pc' = "chat_closed"
    /\ UNCHANGED << status, wire, frames, buffer >>
    /\ ChatStreamOnly

\* A last frame the upstream closes after, before its blank line.
Unterminated == << PFX, Tok("{", "text_hi"), Tok("}", "text_hi") >>

\* client.stream(...) answers 200; the body holds at most `limit` whole
\* frames, and possibly a last one that lacks its blank line.
ChatConnectOk(limit) ==
    /\ pc = "chat_connect"
    /\ status' = 200
    /\ \E fs \in SeqsUpTo(ChatFrames, limit), tail \in { << >>, Unterminated } :
          /\ frames' = fs
          /\ wire' = WireOfAll(fs) \o tail
    /\ buffer' = << >>
    /\ pc' = "chat_streaming"
    /\ UNCHANGED << raised, sent >>
    /\ ChatStreamOnly

\* client.stream(...) answers with an error status and the error object as
\* body; the status is not looked at.
ChatConnectStatus ==
    /\ pc = "chat_connect"
    /\ status' = 500
    /\ frames' = << "error_body" >>
    /\ wire' = WireOfAll(frames')
    /\ buffer' = << >>
    /\ pc' = "chat_streaming"
    /\ UNCHANGED << raised, sent >>
    /\ ChatStreamOnly

\* aiter_text() yields the next chunk, of any length, and the loop body runs.
ChatRead ==
    /\ pc = "chat_streaming"
    /\ wire # << >>
    /\ \E n \in 1 .. Len(wire) :
          LET r == OnChunk(buffer, SubSeq(wire, 1, n))
          IN  /\ wire' = SubSeq(wire, n + 1, Len(wire))
              /\ buffer' = r.buffer
              /\ sent' = sent \o r.emit
    /\ UNCHANGED << status, frames, raised, pc >>
    /\ ChatStreamOnly

\* aiter_text() raises: the upstream connection broke, or the read timed out.
ChatReadError ==
    /\ pc = "chat_streaming"
    /\ raised' = "read"
    /\ sent' = sent \o << error_chunk >> \o Finally
    /\ pc' = "chat_closed"
    /\ UNCHANGED << status, wire, frames, buffer >>
    /\ ChatStreamOnly

\* aiter_text() is exhausted: what is left in the buffer is yielded, then
\* the finally clause runs.
ChatEndOfStream ==
    /\ pc = "chat_streaming"
    /\ wire = << >>
    /\ sent' = sent \o Remaining(buffer) \o Finally
    /\ pc' = "chat_closed"
    /\ UNCHANGED << status, wire, frames, raised, buffer >>
    /\ ChatStreamOnly

(***************************************************************************)
(* The endpoints and their dependencies.  FastAPI resolves the parameters  *)
(* declared with Depends() before it calls the handler; an endpoint        *)
(* without `api_key: dict = Depends(get_current_api_key)` is called for    *)
(* any request.                                                            *)
(***************************************************************************)
\* The endpoints that reach a provider, and GET /models/{model_id} of the
\* two routers.
GatewayEndpoints == { "messages", "count_tokens", "chat_completions" }
ModelEndpoints == { "anthropic_get_model", "chat_get_model" }

\* Every gateway endpoint declares the dependency.
DependsOnApiKeyAll(endpoint) == TRUE

\* The handler declares `api_key: dict = Depends(get_current_api_key)`:
\* create_message, chat_completions and both get_model do, count_tokens
\* declares `request` and `db` only.
DependsOnApiKey(endpoint) == endpoint # "count_tokens"

\* get_current_api_key: the HTTPException it raises, or the row it returns.
\* HTTPBearer() answers 403 itself when the Authorization header is missing.
get_current_api_key(credentials, table) ==
    IF credentials = None
    THEN [ ok |-> FALSE, status_code |-> 403, detail |-> "Not authenticated" ]
    ELSE IF credentials \notin DOMAIN table
    THEN [ ok |-> FALSE, status_code |-> 401, detail |-> "Invalid API key" ]
    ELSE IF ~table[credentials].is_active
    THEN [ ok |-> FALSE, status_code |-> 401, detail |-> "API key is deactivated" ]
    ELSE IF table[credentials].expires_at = "past"
    THEN [ ok |-> FALSE, status_code |-> 401, detail |-> "API key has expired" ]
    ELSE [ ok |-> TRUE, status_code |-> 200, detail |-> credentials ]

\* Where the handler of an endpoint starts.
EntryOf(endpoint) ==
    CASE endpoint = "messages" -> "start"
      [] endpoint = "count_tokens" -> "count_tokens"
      [] endpoint = "chat_completions" -> "chat"
      [] OTHER -> "get_model"

\* The dependencies of the endpoint are resolved: the handler is called, or
\* the exception of get_current_api_key is the answer.
ResolveDependencies ==
    /\ pc = "request"
    /\ LET key == get_current_api_key(http_request.credentials, api_keys)
       IN  IF DependsOnApiKey(http_request.endpoint) /\ ~key.ok
           THEN /\ reply' = Reply(key.status_code, key.detail)
                /\ pc' = "done"
           ELSE /\ pc' = EntryOf(http_request.endpoint)
                /\ UNCHANGED reply
    /\ UNCHANGED << legacyVars, chatStreamVars, endpointVars >>
    /\ UNCHANGED << db, stream, result, contacts, inflight, request_data >>
    /\ UNCHANGED << gatewayVars, streamVars >>
    /\ UNCHANGED << strategies, model_list, model, strategy_type, mapping_response,
                    target >>
    /\ UNCHANGED << chatVars, translationVars, sessionVars, cacheVars >>

\* TranslationService.count_tokens_to_openai_request: the request it builds,
\* or the ValidationError of ChatMessage(role=str(msg.role), ...).  The
\* content of the messages is not followed.
count_tokens_to_openai_request(request) ==
    LET roles == [ i \in 1 .. Len(request.messages) |->
                     str_role(request.messages[i].role) ]
    IN  IF \A i \in 1 .. Len(roles) : roles[i] \in ChatRoles
        THEN [ ok |-> TRUE, error |-> "none", model |-> request.model,
               max_tokens |-> 1, stream |-> FALSE ]
        ELSE [ ok |-> FALSE, error |-> "ValidationError", model |-> "-",
               max_tokens |-> 0, stream |-> FALSE ]

\* count_tokens up to the call of try_providers_until_success; an exception
\* is answered by HTTPException(status_code=500).
CountTokens ==
    /\ pc = "count_tokens"
    /\ LET r == count_tokens_to_openai_request(anthropic_request)
       IN  IF r.ok
           THEN /\ pc' = "start"
                /\ UNCHANGED reply
           ELSE /\ reply' = Reply(500, r.error)
                /\ pc' = "done"
    /\ UNCHANGED << legacyVars, chatStreamVars, endpointVars >>
    /\ UNCHANGED << db, stream, result, contacts, inflight, request_data >>
    /\ UNCHANGED << gatewayVars, streamVars >>
    /\ UNCHANGED << strategies, model_list, model, strategy_type, mapping_response,
                    target >>
    /\ UNCHANGED << chatVars, translationVars, sessionVars, cacheVars >>

\* str(e) of the HTTPException(status_code=404, detail="Model not found"):
\* Starlette's __str__ gives "404: Model not found", a Starlette without it
\* the empty text of Exception.__str__.
StrOfNotFound == { "404: Model not found", "" }

\* The answer of get_model when no provider has the model, with the
\* handler's `except Exception` left out.
NotFoundAnswers == { Reply(404, "Model not found") }

\* `raise HTTPException(status_code=404, detail="Model not found")` stands
\* inside the try block: `except Exception as e` catches it and raises
\* HTTPException(status_code=500, detail=str(e)).
NotFound == { Reply(500, detail) : detail \in StrOfNotFound }

\* `model_id in [provider.small_model, provider.medium_model,
\* provider.big_model]`
Configures(p, id) ==
    id \in { tier_models[p].small_model, tier_models[p].medium_model,
             tier_models[p].big_model }

\* get_model of the Anthropic router and of the OpenAI router: the same
\* lookup, ModelInfo or Model as the answer.
GetModel ==
    /\ pc = "get_model"
    /\ LET active == get_active_providers(db)
       IN  IF \E i \in 1 .. Len(active) : Configures(active[i], http_request.model_id)
           THEN reply' = Reply(200, http_request.model_id)
           ELSE reply' \in NotFound
    /\ pc' = "done"
    /\ UNCHANGED << legacyVars, chatStreamVars, endpointVars >>
    /\ UNCHANGED << db, stream, result, contacts, inflight, request_data >>
    /\ UNCHANGED << gatewayVars, streamVars >>
    /\ UNCHANGED << strategies, model_list, model, strategy_type, mapping_response,
                    target >>
    /\ UNCHANGED << chatVars, translationVars, sessionVars, cacheVars >>

(***************************************************************************)
(* Two requests at a time.  generate_anthropic_stream is a closure made    *)
(* per request: message_id, message_started, the httpx client and the      *)
(* response it reads are locals of one call.                               *)
(***************************************************************************)
Requests == { 1, 2 }

\* str(uuid.uuid4())
MessageIds == { "3f2a", "9c41" }

\* Fault variant of Started: one flag for all the generators.
StartedShared(ss, r) == \E q \in DOMAIN ss : ss[q].message_started

\* The generator's own `message_started`.
Started(ss, r) == ss[r].message_started

\* Nothing but the generators' locals changes.
SessionsOnly ==
    /\ UNCHANGED << legacyVars, chatStreamVars, endpointVars >>
    /\ UNCHANGED << db, stream, pc, result, contacts, inflight, request_data >>
    /\ UNCHANGED << gatewayVars, streamVars, resolverVars >>
    /\ UNCHANGED << chatVars, translationVars, cacheVars >>

\* The locals of a generator that has not run yet.
NewSession ==
    [ pc |-> "open", message_id |-> "-", message_started |-> FALSE, wire |-> << >>,
      events |-> << >>, read |-> << >> ]

\* message_id, message_started = False, and the yield of message_start.
SessionOpen(r) ==
    /\ pc = "sessions"
    /\ sessions[r].pc = "open"
    /\ \E id \in MessageIds :
          sessions' = [ sessions EXCEPT ![r].message_id = id,
                                        ![r].message_started = FALSE,
                                        ![r].events = EventsAtOpen,
                                        ![r].pc = "connect" ]
    /\ SessionsOnly

\* client.stream(...) raises.
SessionConnectFails(r) ==
    /\ pc = "sessions"
    /\ sessions[r].pc = "connect"
    /\ sessions' = [ sessions EXCEPT ![r].events = OnException(@),
                                     ![r].read = Append(@, [ what |-> "raise", chunk |-> << >> ]),
                                     ![r].pc = "closed" ]
    /\ SessionsOnly

\* The frames of the bodies two concurrent requests are answered with: a
\* text, the final chunk with usage, [DONE], and a chunk whose delta is null.
SessionFrames == { "text_hi", "final", "done", "null_delta" }

\* client.stream(...) answers with a body of at most one frame.
SessionConnect(r) ==
    /\ pc = "sessions"
    /\ sessions[r].pc = "connect"
    /\ \E fs \in SeqsUpTo(SessionFrames, 1) :
          sessions' = [ sessions EXCEPT ![r].wire = WireOfAll(fs),
                                        ![r].pc = "streaming" ]
    /\ SessionsOnly

\* aiter_text() of the request's own response yields the next chunk.
SessionRead(r) ==
    /\ pc = "sessions"
    /\ sessions[r].pc = "streaming"
    /\ sessions[r].wire # << >>
    /\ \E n \in 1 .. Len(sessions[r].wire) :
          LET chunk == SubSeq(sessions[r].wire, 1, n)
              step == ProcessChunk(chunk, Started(sessions, r))
          IN  sessions' =
                 [ sessions EXCEPT
                     ![r].wire = SubSeq(@, n + 1, Len(@)),
                     ![r].read = Append(@, [ what |-> "chunk", chunk |-> chunk ]),
                     ![r].message_started = step.started,
                     ![r].events = IF step.raised THEN OnException(@ \o step.emit)
                                   ELSE @ \o step.emit,
                     ![r].pc = IF LeavesLoop(step) THEN "closed" ELSE "streaming" ]
    /\ SessionsOnly

\* aiter_text() raises.
SessionReadError(r) ==
    /\ pc = "sessions"
    /\ sessions[r].pc = "streaming"
    /\ sessions' = [ sessions EXCEPT ![r].events = OnException(@),
                                     ![r].read = Append(@, [ what |-> "raise", chunk |-> << >> ]),
                                     ![r].pc = "closed" ]
    /\ SessionsOnly

\* aiter_text() is exhausted.
SessionEnd(r) ==
    /\ pc = "sessions"
    /\ sessions[r].pc = "streaming"
    /\ sessions[r].wire = << >>
    /\ sessions' = [ sessions EXCEPT ![r].pc = "closed" ]
    /\ SessionsOnly

(***************************************************************************)
(* InMemoryCache: self._cache is a dict, which keeps its keys in the order *)
(* of their first insertion.                                               *)
(***************************************************************************)
CacheKeys == { "key1", "key2", "key3", "key4" }

\* CacheEntry(key, value, created_at, expires_at); expired stands for
\* is_expired, time.time() > expires_at.
CacheEntry(key, value) == [ key |-> key, value |-> value, expired |-> FALSE ]

KeysOf(c) == { c[i].key : i \in 1 .. Len(c) }

\* del self._cache[key]
Without(c, key) == SelectSeq(c, LAMBDA e : e.key # key)

\* `while len(self._cache) >= self.max_size:` del of next(iter(self._cache))
RECURSIVE EvictOldest(_)
EvictOldest(c) == IF Len(c) >= max_size THEN EvictOldest(Tail(c)) ELSE c

\* self._cache[key] = entry: a key the dict holds keeps its place, a new key
\* goes to the end.
Assign(c, entry) ==
    IF entry.key \in KeysOf(c)
    THEN [ i \in 1 .. Len(c) |-> IF c[i].key = entry.key THEN entry ELSE c[i] ]
    ELSE Append(c, entry)

\* The last operation: its name and key, what it returned, the keys it
\* evicted, the cache and the least recently used key before it, and the
\* number of operations so far.
Op(name, key, returned, evicted, before, lru, n) ==
    [ name |-> name, key |-> key, returned |-> returned, evicted |-> evicted,
      before |-> before, lru |-> lru, n |-> n ]

NoOp == Op("none", "-", None, << >>, << >>, "-", 0)

\* The keys by their last use, with `key` used now.
UsedNow(u, key) == Append(SelectSeq(u, LAMBDA k : k # key), key)

LeastRecentlyUsed == IF used = << >> THEN "-" ELSE Head(used)

\* InMemoryCache.set(key, value)
CacheSet(key, value) ==
    /\ pc = "cache"
    /\ op.n < MaxOps
    /\ LET kept == EvictOldest(cache)
           gone == [ i \in 1 .. Len(cache) - Len(kept) |-> cache[i].key ]
       IN  /\ cache' = Assign(kept, CacheEntry(key, value))
           /\ evictions' = evictions + Len(gone)
           /\ used' = UsedNow(SelectSeq(used, LAMBDA k : k \notin Range(gone)), key)
           /\ op' = Op("set", key, None, gone, cache, LeastRecentlyUsed, op.n + 1)
    /\ UNCHANGED << legacyVars, chatStreamVars, endpointVars >>
    /\ UNCHANGED << db, stream, pc, result, contacts, inflight, request_data >>
    /\ UNCHANGED << gatewayVars, streamVars, resolverVars >>
    /\ UNCHANGED << chatVars, translationVars, sessionVars >>

\* InMemoryCache.get(key): None for a key the cache does not hold and for an
\* expired entry, which is deleted; a hit moves the entry to the end.
CacheGet(key) ==
    /\ pc = "cache"
    /\ op.n < MaxOps
    /\ IF key \notin KeysOf(cache)
       THEN /\ op' = Op("get", key, None, << >>, cache, LeastRecentlyUsed, op.n + 1)
            /\ UNCHANGED << cache, used >>
       ELSE LET entry == CHOOSE e \in Range(cache) : e.key = key
            IN  IF entry.expired
                THEN /\ cache' = Without(cache, key)
                     /\ used' = SelectSeq(used, LAMBDA k : k # key)
                     /\ op' = Op("get", key, None, << >>, cache, LeastRecentlyUsed,
                                 op.n + 1)
                ELSE /\ cache' = Append(Without(cache, key), entry)
                     /\ used' = UsedNow(used, key)
                     /\ op' = Op("get", key, entry.value, << >>, cache,
                                 LeastRecentlyUsed, op.n + 1)
    /\ UNCHANGED evictions
    /\ UNCHANGED << legacyVars, chatStreamVars, endpointVars >>
    /\ UNCHANGED << db, stream, pc, result, contacts, inflight, request_data >>
    /\ UNCHANGED << gatewayVars, streamVars, resolverVars >>
    /\ UNCHANGED << chatVars, translationVars, sessionVars >>

\* Time passes the expires_at of an entry.
Expire(key) ==
    /\ pc = "cache"
    /\ \E i \in 1 .. Len(cache) :
          /\ cache[i].key = key
          /\ ~cache[i].expired
          /\ cache' = [ cache EXCEPT ![i].expired = TRUE ]
    /\ op' = Op("expire", key, None, << >>, cache, LeastRecentlyUsed, op.n)
    /\ UNCHANGED << evictions, used >>
    /\ UNCHANGED << legacyVars, chatStreamVars, endpointVars >>
    /\ UNCHANGED << db, stream, pc, result, contacts, inflight, request_data >>
    /\ UNCHANGED << gatewayVars, streamVars, resolverVars >>
    /\ UNCHANGED << chatVars, translationVars, sessionVars >>

(***************************************************************************)
(* Specifications.                                                         *)
(***************************************************************************)
\* No /chat/completions response yet.
NoResponseData == [ model |-> "-" ]

\* The parts of the state a specification does not run: no translation,
\* no chat response, no concurrent requests, an empty cache.
NoTranslation ==
    /\ openai_response_data = << >>
    /\ anthropic_request = [ model |-> "-", system |-> None, messages |-> << >> ]
    /\ anthropic_response = NotReturned
    /\ translated = NotTranslated
    /\ responses = << >>

NoChatResponse ==
    /\ original_model = "-"
    /\ response_data = NoResponseData

NoSessions == sessions = << >>

NoCache ==
    /\ cache = << >>
    /\ evictions = 0
    /\ used = << >>
    /\ op = NoOp

\* No inbound request is followed from its credentials on.
NoEndpoint ==
    /\ http_request = [ endpoint |-> "-", credentials |-> None, model_id |-> "-" ]
    /\ api_keys = << >>
    /\ tier_models = << >>

NoChatStream ==
    /\ buffer = << >>
    /\ sent = << >>

NoLegacyMapping ==
    /\ claude_model = << >>
    /\ provider_config = [ model_list |-> << >> ]
    /\ provider_model = << >>

Tables ==
    { t \in [ ProviderIds -> [ name : ProviderIds, is_active : BOOLEAN ] ] :
        \A p, q \in ProviderIds : p # q => t[p].name # t[q].name }

\* The configuration the /messages requests run against: one active
\* "anthropic" strategy that maps each provider, by ascending priority, to
\* the small-tier model gpt-4o-mini, which every provider serves; the client
\* asks for claude-3-haiku-20240307.
InitMessages ==
    /\ strategies =
          << [ strategy_type |-> "anthropic", is_active |-> TRUE,
               fallback_enabled |-> TRUE, fallback_order |-> Tiers,
               provider_mappings |->
                   [ p \in ProviderIds |->
                       Mapping(p, p, TRUE, << >>, << >>, << "gpt-4o-mini" >>, << >>) ] ] >>
    /\ model_list = [ p \in ProviderIds |-> { "gpt-4o-mini" } ]
    /\ model = "claude-3-haiku-20240307"
    /\ strategy_type = "anthropic"

InitRequest ==
    /\ pc = "start"
    /\ InitMessages
    /\ providers = << >>
    /\ idx = 0
    /\ last_error = NoError
    /\ result = NoResult
    /\ calls = << >>
    /\ answers = << >>
    /\ contacts = << >>
    /\ inflight = {}
    /\ handle = 0
    /\ status = 0
    /\ wire = << >>
    /\ frames = << >>
    /\ message_started = FALSE
    /\ events = << >>
    /\ raised = "none"
    /\ chunks = << >>
    /\ mapping_response = NoResponse
    /\ target = NoTarget
    /\ reply = NoReply
    /\ request_data = << >>
    /\ NoTranslation
    /\ NoChatResponse
    /\ NoSessions
    /\ NoCache
    /\ NoLegacyMapping
    /\ NoChatStream
    /\ NoEndpoint

\* Any providers table, a streaming or a non-streaming request.
Init ==
    /\ db \in Tables
    /\ stream \in BOOLEAN
    /\ InitRequest

Next ==
    \/ TryProviders
    \/ CallProviderApi
    \/ ProviderAnswers
    \/ CallProviderApiStream
    \/ StreamOpen
    \/ ConnectFails
    \/ ConnectOk(1)
    \/ ConnectStatus
    \/ Read
    \/ ReadError
    \/ EndOfStream

Spec == Init /\ [][Next]_vars

\* A streaming request against a table whose providers are all active.
InitStream ==
    /\ db = [ p \in ProviderIds |-> [ name |-> p, is_active |-> TRUE ] ]
    /\ stream = TRUE
    /\ InitRequest

NextStream ==
    \/ TryProviders
    \/ CallProviderApiStream
    \/ StreamOpen
    \/ ConnectFails
    \/ ConnectOk(MaxFrames)
    \/ ConnectStatus
    \/ Read
    \/ ReadError
    \/ EndOfStream

SpecStream == InitStream /\ [][NextStream]_vars

\* The providers a strategy maps to.
MappedProviders == { 1, 2 }

\* What a mapping lists as its large, medium and small models.
TierLists ==
    { [ large |-> << >>, medium |-> << >>, small |-> << "gpt-4o-mini" >> ],
      [ large |-> << "gpt-4o" >>, medium |-> << >>, small |-> << "gpt-4o-mini" >> ],
      [ large |-> << "gpt-4o" >>, medium |-> << "gpt-4" >>, small |-> << >> ],
      [ large |-> << "GPT-4", "gpt-4" >>, medium |-> << >>, small |-> << "gpt-4" >> ] }

\* What a provider serves: every model, or the small one only.
ModelLists == { ModelNames, { "gpt-4o-mini" } }

FallbackOrders == { Tiers, << "small", "medium", "large" >> }

\* The mappings of a strategy: one row per provider, the priorities all
\* different, selected_models listing what the three tiers list.
MappingTables ==
    { [ p \in MappedProviders |->
          Mapping(p, prio[p], act[p], cfg[p].large, cfg[p].medium, cfg[p].small,
                  cfg[p].large \o cfg[p].medium \o cfg[p].small) ] :
        prio \in { f \in [ MappedProviders -> MappedProviders ] :
                     \A p, q \in MappedProviders : p # q => f[p] # f[q] },
        act \in [ MappedProviders -> BOOLEAN ],
        cfg \in [ MappedProviders -> TierLists ] }

\* The rows of model_strategies: they differ in their type and in is_active.
StrategyRows(fe, fo, pms) ==
    { [ strategy_type |-> t, is_active |-> a, fallback_enabled |-> fe,
        fallback_order |-> fo, provider_mappings |-> pms ] :
        t \in StrategyTypes, a \in BOOLEAN }

\* fallback_enabled with fallback_order: a strategy without fallback keeps
\* the order large, medium, small.
FallbackSettings ==
    { << TRUE, fo >> : fo \in FallbackOrders } \cup { << FALSE, Tiers >> }

\* A request to /map-model or to /chat/completions for the model gpt-4,
\* against any configuration of at most MaxStrategies strategies.
InitResolver ==
    /\ \E fb \in FallbackSettings, pms \in MappingTables :
          strategies \in SeqsUpTo(StrategyRows(fb[1], fb[2], pms), MaxStrategies)
    /\ \E act \in [ MappedProviders -> BOOLEAN ] :
          db = [ p \in MappedProviders |-> [ name |-> p, is_active |-> act[p] ] ]
    /\ model_list \in [ MappedProviders -> ModelLists ]
    /\ model = "gpt-4"
    /\ \/ pc = "map" /\ strategy_type \in StrategyTypes
       \/ pc = "chat" /\ strategy_type = "openai"
    /\ stream = FALSE
    /\ providers = << >>
    /\ idx = 0
    /\ last_error = NoError
    /\ result = NoResult
    /\ calls = << >>
    /\ answers = << >>
    /\ contacts = << >>
    /\ inflight = {}
    /\ handle = 0
    /\ status = 0
    /\ wire = << >>
    /\ frames = << >>
    /\ message_started = FALSE
    /\ events = << >>
    /\ raised = "none"
    /\ chunks = << >>
    /\ mapping_response = NoResponse
    /\ target = NoTarget
    /\ reply = NoReply
    /\ request_data = << >>
    /\ NoTranslation
    /\ NoChatResponse
    /\ NoSessions
    /\ NoCache
    /\ NoLegacyMapping
    /\ NoChatStream
    /\ NoEndpoint

NextResolver ==
    \/ MapModelEndpoint
    \/ GetProviderForModel
    \/ ChatCallProvider
    \/ ChatReturn

SpecResolver == InitResolver /\ [][NextResolver]_vars

\* Nothing of a request has happened yet.
Idle ==
    /\ stream = FALSE
    /\ strategies = << >>
    /\ model_list = [ p \in ProviderIds |-> {} ]
    /\ model = "-"
    /\ strategy_type = "anthropic"
    /\ providers = << >>
    /\ idx = 0
    /\ last_error = NoError
    /\ result = NoResult
    /\ calls = << >>
    /\ answers = << >>
    /\ contacts = << >>
    /\ inflight = {}
    /\ handle = 0
    /\ status = 0
    /\ wire = << >>
    /\ frames = << >>
    /\ message_started = FALSE
    /\ events = << >>
    /\ raised = "none"
    /\ chunks = << >>
    /\ mapping_response = NoResponse
    /\ target = NoTarget
    /\ reply = NoReply
    /\ request_data = << >>

\* No request at the gateway, at the re-emitter or at the resolver.
NoRequest ==
    /\ db = [ p \in ProviderIds |-> [ name |-> p, is_active |-> TRUE ] ]
    /\ Idle

\* The entries of tool_calls an upstream sends.
ToolCallEntries ==
    { [ id |-> "call_1", type |-> "function",
        function |-> [ name |-> "get_weather", arguments |-> arguments ] ] :
        arguments \in Arguments }
    \cup { [ id |-> "call_2", type |-> "function",
             function |-> [ name |-> "get_time", arguments |-> "{\"q\": 1}" ] ] }

\* choices[0].message: content a text, empty, null or absent.
UpstreamMessages ==
    LET lists == SeqsUpTo(ToolCallEntries, MaxToolCalls)
    IN  { [ role |-> "assistant", content |-> c, tool_calls |-> t ] :
            c \in { "Hi", "", None }, t \in lists }
        \cup { [ role |-> "assistant", tool_calls |-> t ] : t \in lists }

\* "function_call" stands for a finish_reason the table does not list.
FinishReasons == { "stop", "length", "content_filter", "tool_calls", "function_call" }

UpstreamChoices ==
    { [ index |-> 0, message |-> m, finish_reason |-> f ] :
        m \in UpstreamMessages, f \in FinishReasons \cup { None } }
    \cup { [ index |-> 0, message |-> m ] : m \in UpstreamMessages }
    \cup { [ index |-> 0, finish_reason |-> "stop" ] }

\* The JSON of a 200 answer: with or without id and usage, with one choice
\* or none.
OpenAIResponses ==
    LET lists == { << >> } \cup { << c >> : c \in UpstreamChoices }
        usage == [ prompt_tokens |-> 3, completion_tokens |-> 5, total_tokens |-> 8 ]
    IN  { [ id |-> "chatcmpl-1", choices |-> cs, usage |-> usage ] : cs \in lists }
        \cup { [ id |-> "chatcmpl-1", choices |-> cs ] : cs \in lists }
        \cup { [ choices |-> cs, usage |-> usage ] : cs \in lists }
        \cup { [ choices |-> cs ] : cs \in lists }

ImageContent(media_type, data) ==
    [ type |-> "image",
      source |-> [ type |-> "base64", media_type |-> media_type, data |-> data ] ]

ToolResultContent(tool_use_id, content) ==
    [ type |-> "tool_result", tool_use_id |-> tool_use_id, content |-> content ]

\* AnthropicMessage.content: Union[str, List[Union[TextContent, ImageContent,
\* ToolResultContent]]]
ContentItems ==
    { TextContent("a"), ImageContent("image/png", "iVBORw0KGgo="),
      ToolResultContent("toolu_1", "4") }

MessageRole == { "user", "assistant" }

AnthropicMessages ==
    { [ role |-> r, content |-> c ] :
        r \in MessageRole,
        c \in { Str("Hi") } \cup { List(l) : l \in SeqsUpTo(ContentItems, MaxBlocks) } }

\* The bodies of POST /messages: with or without a system prompt, with no
\* message, one message or two.
AnthropicRequests ==
    { [ model |-> "claude-3-haiku-20240307", system |-> sys, messages |-> ms ] :
        sys \in { None, "", "Be brief" },
        ms \in { << >> } \cup { << m >> : m \in AnthropicMessages }
                 \cup { << m, n >> : m \in AnthropicMessages, n \in AnthropicMessages } }

\* Either the provider's JSON of a non-streaming request waits for its
\* translation, or the body of a request does.
InitTranslation ==
    /\ NoRequest
    /\ \/ /\ pc = "respond"
          /\ openai_response_data \in OpenAIResponses
          /\ anthropic_request = [ model |-> "claude-3-haiku-20240307",
                                   system |-> None, messages |-> << >> ]
       \/ /\ pc = "translate"
          /\ openai_response_data = << >>
          /\ anthropic_request \in AnthropicRequests
    /\ anthropic_response = NotReturned
    /\ translated = NotTranslated
    /\ responses = << >>
    /\ NoChatResponse
    /\ NoSessions
    /\ NoCache
    /\ NoLegacyMapping
    /\ NoChatStream
    /\ NoEndpoint

NextTranslation ==
    \/ CreateMessageResponse
    \/ AnthropicToOpenaiResponse
    \/ AnthropicToOpenaiRequest

SpecTranslation == InitTranslation /\ [][NextTranslation]_vars

\* Two streaming requests whose generators are about to run.
InitSessions ==
    /\ NoRequest
    /\ pc = "sessions"
    /\ sessions = [ r \in Requests |-> NewSession ]
    /\ NoTranslation
    /\ NoChatResponse
    /\ NoCache
    /\ NoLegacyMapping
    /\ NoChatStream
    /\ NoEndpoint

NextSessions ==
    \/ \E r \in Requests : SessionOpen(r)
    \/ \E r \in Requests : SessionConnectFails(r)
    \/ \E r \in Requests : SessionConnect(r)
    \/ \E r \in Requests : SessionRead(r)
    \/ \E r \in Requests : SessionReadError(r)
    \/ \E r \in Requests : SessionEnd(r)

SpecSessions == InitSessions /\ [][NextSessions]_vars

\* InMemoryCache(max_size): an empty cache.
InitCache ==
    /\ NoRequest
    /\ pc = "cache"
    /\ NoTranslation
    /\ NoChatResponse
    /\ NoSessions
    /\ NoCache
    /\ NoLegacyMapping
    /\ NoChatStream
    /\ NoEndpoint

NextCache ==
    \/ \E key \in CacheKeys : CacheSet(key, "value_" \o key)
    \/ \E key \in CacheKeys : CacheGet(key)
    \/ \E key \in CacheKeys : Expire(key)

SpecCache == InitCache /\ [][NextCache]_vars

\* The Claude-style names a client asks for; two carry two of the keywords
\* and one is written in capitals.
ClaudeModels == { << "c", "l", "a", "u", "d", "e", "-", "3", "-", "h", "a", "i", "k", "u" >>,
                  << "c", "l", "a", "u", "d", "e", "-", "3", "-", "s", "o", "n", "n", "e", "t" >>,
                  << "c", "l", "a", "u", "d", "e", "-", "3", "-", "o", "p", "u", "s" >>,
                  << "u", "n", "k", "n", "o", "w", "n", "-", "m", "o", "d", "e", "l" >>,
                  << "C", "L", "A", "U", "D", "E", "-", "3", "-", "H", "A", "I", "K", "U" >>,
                  << "s", "o", "n", "n", "e", "t", "-", "t", "o", "-", "o", "p", "u", "s" >> }

\* Provider.model_list entries; the last one matches no pattern.
ProviderModels == { << "g", "p", "t", "-", "4", "o" >>,
                    << "g", "p", "t", "-", "3", ".", "5", "-", "t", "u", "r", "b", "o" >>,
                    << "c", "l", "a", "u", "d", "e", "-", "3", "-", "h", "a", "i", "k", "u" >>,
                    << "g", "p", "t", "-", "4" >>,
                    << "l", "l", "a", "m", "a", "-", "7", "0", "b" >> }

\* Entries of one provider's model_list, at most (specification SpecLegacy).
MaxModels == 2

TierFields == { "small_model", "medium_model", "big_model" }

\* A provider's configuration: each tier field is missing, "" or a name.
ProviderConfigs ==
    { [ k \in present \cup { "model_list" } |->
          CASE k = "model_list" -> l
            [] k = "small_model" -> s
            [] k = "medium_model" -> m
            [] k = "big_model" -> b ] :
        present \in SUBSET TierFields,
        s \in { << >>, << "g", "p", "t", "-", "3", ".", "5", "-", "t", "u", "r", "b", "o" >> },
        m \in { << >>, << "g", "p", "t", "-", "4" >> },
        b \in { << >>, << "g", "p", "t", "-", "4", "-", "t", "u", "r", "b", "o" >> },
        l \in SeqsUpTo(ProviderModels, MaxModels) }

\* A name and a configuration, about to be mapped.
InitLegacy ==
    /\ NoRequest
    /\ pc = "legacy"
    /\ claude_model \in ClaudeModels
    /\ provider_config \in ProviderConfigs
    /\ provider_model = << >>
    /\ NoTranslation
    /\ NoChatResponse
    /\ NoSessions
    /\ NoCache
    /\ NoChatStream
    /\ NoEndpoint

NextLegacy == MapClaudeModel

SpecLegacy == InitLegacy /\ [][NextLegacy]_vars

\* A streaming POST /chat/completions whose generator is about to connect.
InitChatStream ==
    /\ NoRequest
    /\ pc = "chat_connect"
    /\ NoTranslation
    /\ NoChatResponse
    /\ NoSessions
    /\ NoCache
    /\ NoLegacyMapping
    /\ NoChatStream
    /\ NoEndpoint

NextChatStream ==
    \/ ChatConnectFails
    \/ ChatConnectOk(MaxFrames)
    \/ ChatConnectStatus
    \/ ChatRead
    \/ ChatReadError
    \/ ChatEndOfStream

SpecChatStream == InitChatStream /\ [][NextChatStream]_vars

\* The api_keys table: one key, active or not, without an expiry date or
\* with one in the past or in the future.
ApiKeyTables ==
    { [ k \in { "sk-1" } |-> row ] :
        row \in [ is_active : BOOLEAN, expires_at : { None, "past", "future" } ] }

\* credentials.credentials of the Authorization header; None: no header.
Credentials == { None, "sk-1", "sk-0" }

\* The tier columns of a provider's row.
TierRows ==
    { [ small_model |-> None, medium_model |-> None, big_model |-> None ],
      [ small_model |-> None, medium_model |-> "gpt-4o", big_model |-> None ],
      [ small_model |-> "gpt-4o-mini", medium_model |-> "gpt-4o", big_model |-> "gpt-4" ] }

ModelIds == { "gpt-4o", "gpt-4o-mini", "gpt-3.5-turbo" }

\* The bodies of POST /messages/count_tokens: without messages, and with one.
CountTokensRequests ==
    { [ model |-> "claude-3-haiku-20240307", system |-> "Be brief.", messages |-> ms ] :
        ms \in { << >>, << [ role |-> "user", content |-> Str("Hi") ] >> } }

\* A request arrives at one of the endpoints: at a gateway endpoint, with
\* every provider active, or at GET /models/{model_id}.
InitEndpoints ==
    /\ Idle
    /\ pc = "request"
    /\ api_keys \in ApiKeyTables
    /\ \/ /\ http_request \in [ endpoint : GatewayEndpoints, credentials : Credentials,
                                model_id : { "-" } ]
          /\ tier_models = [ p \in ProviderIds |->
                               [ small_model |-> None, medium_model |-> None,
                                 big_model |-> None ] ]
          /\ anthropic_request \in CountTokensRequests
          /\ db = [ p \in ProviderIds |-> [ name |-> p, is_active |-> TRUE ] ]
       \/ /\ http_request \in [ endpoint : ModelEndpoints, credentials : Credentials,
                                model_id : ModelIds ]
          /\ tier_models \in [ ProviderIds -> TierRows ]
          /\ db \in { t \in Tables : \A q \in ProviderIds : t[q].name = q }
          /\ anthropic_request = [ model |-> "-", system |-> None, messages |-> << >> ]
    /\ openai_response_data = << >>
    /\ anthropic_response = NotReturned
    /\ translated = NotTranslated
    /\ responses = << >>
    /\ NoChatResponse
    /\ NoSessions
    /\ NoCache
    /\ NoLegacyMapping
    /\ NoChatStream

NextEndpoints ==
    \/ ResolveDependencies
    \/ CountTokens
    \/ GetModel
    \/ TryProviders
    \/ CallProviderApi
    \/ ProviderAnswers
    \/ GetProviderForModel
    \/ ChatCallProvider
    \/ ChatReturn

SpecEndpoints == InitEndpoints /\ [][NextEndpoints]_vars

(***************************************************************************)
(* Properties of the provider gateway (specification Spec).                *)
(***************************************************************************)
IsPrefix(s, t) == Len(s) <= Len(t) /\ s = SubSeq(t, 1, Len(s))

\* A 200 answer with a JSON body.
Good(o) == o.exc = "none" /\ o.status = 200

\* C1: try_providers_until_success attempts the active providers, ordered by
\* name, strictly one after another and returns the response of the first
\* provider whose call succeeds: the providers called are a prefix of the
\* list, each called once, at most one HTTP exchange is open at any time,
\* and no provider after the first successful one is called or contacted.
C1_SequentialFirstSuccess ==
    /\ pc # "start" =>
          /\ Range(providers) = { p \in ProviderIds : db[p].is_active }
          /\ \A i, j \in 1 .. Len(providers) :
                i < j => db[providers[i]].name < db[providers[j]].name
    /\ IsPrefix(calls, providers)
    /\ IsPrefix(contacts, calls)
    /\ \A i, j \in 1 .. Len(calls) : i # j => calls[i] # calls[j]
    /\ Cardinality(inflight) <= 1
    /\ Len(answers) <= Len(calls)
    /\ \A i \in 1 .. Len(answers) :
          Good(answers[i]) => i = Len(calls) /\ result = Response(calls[i])
    /\ result.kind = "response" =>
          Len(answers) = Len(calls) /\ Good(answers[Len(answers)])
    /\ result.kind = "stream" => calls = << providers[1] >>

\* The second of three providers answered 200: the third was never called.
C1_Witness ==
    /\ result.kind = "response"
    /\ Len(providers) = 3
    /\ calls = SubSeq(providers, 1, 2)
    /\ contacts = calls

\* C2: when all N active providers fail, try_providers_until_success raises
\* after exactly N calls, one per provider, and 'All providers failed'
\* carries the error of the last provider; with N = 0 it raises 'No active
\* providers available' and no provider is called.
C2_AllProvidersFail ==
    /\ result.detail = "All providers failed" =>
          /\ Len(providers) >= 1
          /\ calls = providers
          /\ Len(answers) = Len(providers)
          /\ \A i \in 1 .. Len(answers) : ~Good(answers[i])
          /\ result.error.provider = providers[Len(providers)]
          /\ result.error.what # "none"
    /\ result.detail = "No active providers available" =>
          providers = << >> /\ calls = << >> /\ contacts = << >>
    /\ (pc # "start" /\ providers = << >>) =>
          result.detail = "No active providers available"
    /\ ( /\ providers # << >>
         /\ Len(answers) = Len(providers)
         /\ \A i \in 1 .. Len(answers) : ~Good(answers[i]) ) =>
          result.kind = "http500" /\ result.detail = "All providers failed"
    /\ result.kind = "http500" =>
          result.detail \in { "All providers failed", "No active providers available" }

\* Three providers failed, in different ways.
C2_Witness ==
    /\ result.detail = "All providers failed"
    /\ Len(providers) = 3
    /\ answers[1].status = 500
    /\ answers[3].exc = "timeout"
    /\ result.error = Error(providers[3], "timeout")

\* C3: a streaming request whose provider cannot be connected to goes on to
\* the next provider, and fails only when every provider has been tried.
C3_StreamFailover ==
    (stream /\ raised = "connect") => contacts = providers

\* A non-2xx answer.
Non2xx(o) == o.exc = "none" /\ ~(o.status \in 200 .. 299)

\* C4: a non-2xx answer to a non-streaming call is a failure of that
\* provider: its response is never returned, the loop goes on with the next
\* provider, and its error reaches the client only if it was the last
\* provider of the list.
C4_Non2xxIsFailure ==
    \A i \in 1 .. Len(answers) :
        Non2xx(answers[i]) =>
            /\ result.kind # "response" \/ result.provider # calls[i]
            /\ i < Len(providers) => idx > i /\ last_error.provider \in Range(calls)
            /\ (result.kind = "http500" /\ result.error.provider = calls[i]) =>
                  i = Len(providers)
            /\ (pc = "done" /\ i = Len(providers)) =>
                  result = HTTPException("All providers failed", Error(calls[i], "non200"))

\* The first provider answered 500, the second 200: the client got the
\* second provider's response.
C4_Witness ==
    /\ Len(answers) = 2
    /\ answers[1].status = 500
    /\ result = Response(calls[2])

(***************************************************************************)
(* Properties of the streaming re-emitter (specification SpecStream).      *)
(***************************************************************************)
Positions(type) == { i \in 1 .. Len(events) : events[i].type = type }

\* The generator ended and every byte it was given came through: nothing
\* was lost to a failed connection or a broken read.
StreamEnded == pc = "closed" /\ raised \notin { "connect", "read" }

\* The events of a body whose frames arrive whole, each in a read of its own.
RECURSIVE WholeFrames(_, _)
WholeFrames(fs, started) ==
    IF fs = << >> THEN << >>
    ELSE LET r == ProcessChunk(WireOf(Head(fs)), started)
         IN  IF r.raised THEN OnException(r.emit)
             ELSE IF r.stop THEN r.emit
             ELSE r.emit \o WholeFrames(Tail(fs), r.started)

\* C5: however the upstream body is cut into reads, the events emitted are
\* those emitted when each frame arrives whole in a read of its own.
C5_FrameReassembly ==
    StreamEnded => events = EventsAtOpen \o WholeFrames(frames, FALSE)

Rank(type) ==
    CASE type = "message_start"       -> 1
      [] type = "content_block_start" -> 2
      [] type = "content_block_delta" -> 3
      [] type = "message_delta"       -> 4
      [] type = "message_stop"        -> 5
      [] OTHER                        -> 0

\* C6: the events of one message follow the order message_start,
\* content_block_start, content_block_delta*, message_delta, message_stop:
\* no event of an earlier kind follows an event of a later kind.
C6_EventOrder ==
    \A i, j \in 1 .. Len(events) :
        (i < j /\ Rank(events[i].type) > 0 /\ Rank(events[j].type) > 0) =>
            Rank(events[i].type) <= Rank(events[j].type)

\* C7: message_start, with an empty content array and zero usage, is the
\* first event, is emitted before the upstream is contacted, and is emitted
\* once.
C7_MessageStartFirst ==
    /\ pc \in { "connect", "streaming", "closed" } =>
          /\ Len(events) >= 1
          /\ events[1].type = "message_start"
          /\ events[1].content_blocks = 0
          /\ events[1].input_tokens = 0
          /\ events[1].output_tokens = 0
    /\ Positions("message_start") \subseteq { 1 }
    /\ pc = "connect" => Len(events) = 1 /\ contacts = << >>
    /\ events = << >> => contacts = << >> /\ chunks = << >>

\* The stream of a whole body: message_start and four more events.
C7_Witness ==
    /\ pc = "closed"
    /\ Len(events) = 5
    /\ events[1] = MessageStart
    /\ events[5] = MessageStop

\* The decoded chunks that carry a non-empty delta.content.
HasContent(c) ==
    /\ c.what = "json"
    /\ Payload(c.f).choices = "one"
    /\ Payload(c.f).delta = "obj"
    /\ Payload(c.f).content \notin { "absent", "" }

\* C8: content_block_start is emitted at most once, immediately before the
\* content_block_delta of the first decoded delta with non-empty content;
\* every such delta emits one content_block_delta, in order, every
\* content_block_delta comes after the content_block_start, and all content
\* block events carry index 0.
C8_ContentBlockOnce ==
    LET starts == Positions("content_block_start")
        deltas == Positions("content_block_delta")
        texts == SelectSeq(events, LAMBDA e : e.type = "content_block_delta")
        content == SelectSeq(chunks, HasContent)
    IN  /\ Cardinality(starts) <= 1
        /\ \A i \in starts :
              /\ i < Len(events)
              /\ events[i + 1].type = "content_block_delta"
              /\ \A j \in deltas : i < j
        /\ deltas # {} => starts # {}
        /\ \A i \in starts \cup deltas : events[i].index = 0
        /\ Len(texts) = Len(content)
        /\ \A k \in 1 .. Len(texts) : texts[k].text = Payload(content[k].f).content
        /\ message_started <=> starts # {}

\* Two content frames: one content_block_start, two content_block_delta.
C8_Witness ==
    /\ Len(SelectSeq(chunks, HasContent)) = 2
    /\ Cardinality(Positions("content_block_start")) = 1
    /\ Cardinality(Positions("content_block_delta")) = 2
    /\ events[2] = ContentBlockStart
    /\ events[3] = ContentBlockDelta("Hi")
    /\ events[Len(events)].type = "content_block_delta"

\* C9: a chunk whose payload is [DONE] emits message_stop once and ends the
\* loop: it is the last chunk processed, message_stop is the last event,
\* and the generator is closed.
C9_DoneIsTerminal ==
    LET stops == Positions("message_stop")
        dones == { i \in 1 .. Len(chunks) : chunks[i].what = "done" }
    IN  /\ Cardinality(stops) <= 1
        /\ Cardinality(dones) = Cardinality(stops)
        /\ dones \subseteq { Len(chunks) }
        /\ stops \subseteq { Len(events) }
        /\ stops # {} => pc = "closed" /\ inflight = {}

\* [DONE] was followed by another frame, which stays unread.
C9_Witness ==
    /\ Len(chunks) = 2
    /\ chunks[2].what = "done"
    /\ events[Len(events)] = MessageStop
    /\ wire # << >>
    /\ pc = "closed"

\* C10: an exception in the generator (connecting, reading a chunk,
\* processing a frame) becomes exactly one error event, the last event of
\* the stream; the generator ends and no other provider is tried.
C10_ExceptionIsOneErrorEvent ==
    LET errors == Positions("error")
    IN  /\ Cardinality(errors) = (IF raised = "none" THEN 0 ELSE 1)
        /\ errors \subseteq { Len(events) }
        /\ raised # "none" =>
              /\ pc = "closed"
              /\ inflight = {}
              /\ calls = << providers[1] >>
              /\ contacts = calls

\* A frame with a null delta raised after two events had been emitted.
C10_Witness ==
    /\ raised = "process"
    /\ Len(providers) >= 2
    /\ Len(events) = 4
    /\ events[4] = ErrorEvent

\* A chunk that is neither blank nor the sentinel and that json.loads
\* rejects.
Undecodable(chunk) ==
    /\ Strip(chunk) # << >>
    /\ LET data == IF StartsWithData(chunk) THEN Strip(Tail(chunk)) ELSE chunk
       IN  Strip(data) # << DONE >> /\ ~json_loads(data).ok

\* C11: a chunk whose payload cannot be decoded as JSON is skipped: the step
\* that consumes it emits no event, raises nothing, keeps the stream open
\* and leaves message_started as it was, so that what follows is processed
\* from the very state it would have been processed from without the chunk.
C11_UndecodableFrameSkipped ==
    [][ ( /\ pc = "streaming"
          /\ Len(wire') < Len(wire)
          /\ Undecodable(SubSeq(wire, 1, Len(wire) - Len(wire'))) )
        => ( /\ events' = events
             /\ message_started' = message_started
             /\ raised' = raised
             /\ chunks' = chunks
             /\ inflight' = inflight
             /\ pc' = "streaming" ) ]_vars

\* A comment line came first and was skipped, the text frame after it was
\* translated, and the stream ended normally.
C11_Witness ==
    /\ frames = << "comment", "text_hi" >>
    /\ pc = "closed"
    /\ raised = "none"
    /\ chunks = << [ what |-> "json", f |-> "text_hi" ] >>
    /\ events = << MessageStart, ContentBlockStart, ContentBlockDelta("Hi") >>

\* The finish-reason table: stop and content_filter end the turn, length is
\* max_tokens, tool_calls is tool_use.
FinishReasonTable(finish_reason) ==
    CASE finish_reason = "length"     -> "max_tokens"
      [] finish_reason = "tool_calls" -> "tool_use"
      [] OTHER                        -> "end_turn"

\* The decoded chunks whose object has a choice and a usage object.
UsageChunks ==
    SelectSeq(chunks, LAMBDA c :
        /\ c.what = "json"
        /\ Payload(c.f).choices = "one"
        /\ Payload(c.f).delta # "null"
        /\ Payload(c.f).usage)

\* C12: the message_delta events are, in order, those of the decoded chunks
\* that carry usage, one each; for a chunk that also carries a finish_reason
\* the event's stop_reason is the finish_reason mapped by the table, its
\* input_tokens the chunk's prompt_tokens and its output_tokens the chunk's
\* completion_tokens.
C12_MessageDeltaFromUsage ==
    LET deltas == SelectSeq(events, LAMBDA e : e.type = "message_delta")
    IN  /\ Len(deltas) = Len(UsageChunks)
        /\ \A i \in 1 .. Len(deltas) :
              LET obj == Payload(UsageChunks[i].f)
              IN  obj.finish # "absent" =>
                    /\ deltas[i].stop_reason = FinishReasonTable(obj.finish)
                    /\ deltas[i].input_tokens = obj.prompt_tokens
                    /\ deltas[i].output_tokens = obj.completion_tokens

\* A frame with finish_reason "length" and usage 3/1 was decoded and its
\* message_delta sent.
C12_Witness ==
    /\ \E i \in 1 .. Len(chunks) : chunks[i] = [ what |-> "json", f |-> "final" ]
    /\ \E i \in 1 .. Len(events) :
          /\ events[i].type = "message_delta"
          /\ events[i].stop_reason = "max_tokens"
          /\ events[i].input_tokens = 3
          /\ events[i].output_tokens = 1

(***************************************************************************)
(* Properties of the model resolver (specification SpecResolver).          *)
(***************************************************************************)
\* map_model has been called for the request, and `model` still is the
\* name it was called with (chat_completions overwrites it before the call
\* of the provider).
Resolved == mapping_response # NoResponse /\ pc \notin { "posted", "returned" }

\* The rows of the requested type, and the lists of a mapping that count
\* for that type.
RowsOfType == SelectSeq(strategies, LAMBDA s : s.strategy_type = strategy_type)

ListsOfType == IF strategy_type = "openai" THEN << "selected" >> ELSE Tiers

\* The tier a result from list `t` is reported with.
LabelOf(t) == IF strategy_type = "openai" THEN "openai" ELSE t

ExactListings ==
    LET ms == RowsOfType[1].provider_mappings
    IN  { h \in [ k : 1 .. Len(ms), t : 1 .. Len(ListsOfType), i : 1 .. 2 ] :
            /\ ms[h.k].is_active
            /\ db[ms[h.k].provider_id].is_active
            /\ h.i <= Len(TierModels(ms[h.k], ListsOfType[h.t]))
            /\ LET listed == TierModels(ms[h.k], ListsOfType[h.t])[h.i]
               IN  /\ Lower(listed) = Lower(model)
                   /\ listed \in model_list[ms[h.k].provider_id] }

\* Listing g comes before listing h: lower priority number first, then the
\* order of the lists, then the place in the list.
ListedBefore(g, h) ==
    LET ms == RowsOfType[1].provider_mappings
    IN  \/ ms[g.k].priority < ms[h.k].priority
        \/ g.k = h.k /\ g.t < h.t
        \/ g.k = h.k /\ g.t = h.t /\ g.i < h.i

FallbackOrderOfType ==
    IF strategy_type = "openai" THEN << "selected" >> ELSE RowsOfType[1].fallback_order

\* The listings the fallback pass can return: an active mapping of an active
\* provider lists, at place i of the t-th list of the fallback order, a
\* name that the provider serves.
FallbackListings ==
    LET ms == RowsOfType[1].provider_mappings
    IN  { h \in [ k : 1 .. Len(ms), t : 1 .. Len(FallbackOrderOfType), i : 1 .. 2 ] :
            /\ ms[h.k].is_active
            /\ db[ms[h.k].provider_id].is_active
            /\ h.i <= Len(TierModels(ms[h.k], FallbackOrderOfType[h.t]))
            /\ TierModels(ms[h.k], FallbackOrderOfType[h.t])[h.i]
                   \in model_list[ms[h.k].provider_id] }

\* The fallback pass: it has answered only if fallback is enabled and there
\* is no exact listing, and then with the first fallback listing (by
\* priority, then the fallback order, then list order).
FallbackPass ==
    LET strategy == RowsOfType[1]
        ms == strategy.provider_mappings
    IN  /\ (mapping_response.ok /\ mapping_response.fallback_used)
              => (strategy.fallback_enabled /\ ExactListings = {})
        /\ (strategy.fallback_enabled /\ ExactListings = {} /\ FallbackListings # {})
              => LET h == CHOOSE h \in FallbackListings :
                              \A g \in FallbackListings : g = h \/ ListedBefore(h, g)
                 IN  /\ mapping_response.ok
                     /\ mapping_response.fallback_used
                     /\ mapping_response.provider_id = ms[h.k].provider_id
                     /\ mapping_response.tier_used = LabelOf(FallbackOrderOfType[h.t])
                     /\ mapping_response.mapped_model =
                            TierModels(ms[h.k], FallbackOrderOfType[h.t])[h.i]

P1P2Scenario ==
    /\ Resolved
    /\ strategy_type = "anthropic"
    /\ RowsOfType # << >>
    /\ RowsOfType[1].fallback_enabled
    /\ RowsOfType[1].fallback_order = << "large", "medium", "small" >>
    /\ \E p1, p2 \in 1 .. 2 :
          LET P1 == RowsOfType[1].provider_mappings[p1]
              P2 == RowsOfType[1].provider_mappings[p2]
          IN  /\ P1.priority = 1 /\ P2.priority = 2
              /\ P1.is_active /\ P2.is_active
              /\ db[P1.provider_id].is_active /\ db[P2.provider_id].is_active
              /\ P1.large_models = << >> /\ P1.medium_models = << >>
              /\ P1.small_models = << "gpt-4o-mini" >>
              /\ P2.large_models = << "gpt-4o" >>
              /\ \A t \in Range(Tiers) :
                    model \notin Range(TierModels(P1, t)) \cup Range(TierModels(P2, t))
              /\ model_list[P1.provider_id] = ModelNames
              /\ model_list[P2.provider_id] = ModelNames

\* The mapping of priority 1.
FirstByPriority ==
    LET ms == RowsOfType[1].provider_mappings
    IN  ms[CHOOSE k \in 1 .. Len(ms) : ms[k].priority = 1]

\* Original statement of C15: in the scenario map_model returns a
\* large-tier model.
C15_FallbackReturnsLarge ==
    P1P2Scenario => (mapping_response.ok /\ mapping_response.tier_used = "large")

\* C15: in the scenario map_model returns the small-tier model of P1, the
\* provider of priority 1, with tier_used = small and fallback_used = true:
\* the tiers of P1 are gone through before P2 is looked at.
C15_FallbackReturnsFirstProvider ==
    P1P2Scenario =>
        /\ mapping_response.ok
        /\ mapping_response.fallback_used
        /\ mapping_response.provider_id = FirstByPriority.provider_id
        /\ mapping_response.tier_used = "small"
        /\ mapping_response.mapped_model = "gpt-4o-mini"

\* The scenario with P1 the second row of the mapping table: the answer is
\* P1's small model.
C15_Witness ==
    /\ P1P2Scenario
    /\ RowsOfType[1].provider_mappings[2].priority = 1
    /\ mapping_response.provider_id = 2
    /\ mapping_response.tier_used = "small"

\* C16: every successful result of map_model names an active provider that
\* serves mapped_model (availability), and an active mapping of the strategy
\* used, to that provider, lists mapped_model in one of its model lists
\* (eligibility); for either pass and either strategy type.
C16_AvailableAndEligible ==
    (Resolved /\ mapping_response.ok) =>
        /\ RowsOfType # << >>
        /\ mapping_response.provider_id \in DOMAIN db
        /\ db[mapping_response.provider_id].is_active
        /\ mapping_response.mapped_model \in model_list[mapping_response.provider_id]
        /\ \E k \in 1 .. Len(RowsOfType[1].provider_mappings) :
              LET m == RowsOfType[1].provider_mappings[k]
              IN  /\ m.provider_id = mapping_response.provider_id
                  /\ m.is_active
                  /\ mapping_response.mapped_model \in
                        Range(m.large_models) \cup Range(m.medium_models)
                        \cup Range(m.small_models) \cup Range(m.selected_models)

\* A fallback answer of an openai strategy while the other provider, of
\* better priority, lists models it does not serve.
C16_Witness ==
    /\ Resolved
    /\ strategy_type = "openai"
    /\ mapping_response.ok
    /\ mapping_response.fallback_used
    /\ \E k \in 1 .. 2 :
          LET m == RowsOfType[1].provider_mappings[k]
          IN  /\ m.provider_id # mapping_response.provider_id
              /\ m.priority = 1
              /\ m.is_active
              /\ db[m.provider_id].is_active
              /\ m.selected_models = << "gpt-4o", "gpt-4" >>
              /\ model_list[m.provider_id] = { "gpt-4o-mini" }

\* C17: with no active strategy of the requested type map_model raises the
\* no-strategy error, and a result never comes from a strategy that is not
\* active.
C17_InactiveStrategyNeverUsed ==
    Resolved =>
        /\ (\A i \in 1 .. Len(strategies) :
               strategies[i].strategy_type = strategy_type => ~strategies[i].is_active)
              => (~mapping_response.ok
                  /\ mapping_response.error = "No strategies found for type")
        /\ mapping_response.ok
              => \E i \in 1 .. Len(strategies) :
                    /\ strategies[i].strategy_type = strategy_type
                    /\ strategies[i].is_active

\* C18: a request whose model resolution failed is answered with a client
\* error (4xx), and no request is sent upstream for it.
C18_ResolutionFailureRejected ==
    (mapping_response # NoResponse /\ ~mapping_response.ok) =>
        /\ contacts = << >>
        /\ request_data = << >>
        /\ pc \notin { "call", "posted" }
        /\ pc = "done" => reply.status \in 400 .. 499

\* C20: every successful result of map_model has tier_used among large,
\* medium, small and single.
C20_TierUsedDomain ==
    (Resolved /\ mapping_response.ok) =>
        mapping_response.tier_used \in { "large", "medium", "small", "single" }

(***************************************************************************)
(* Properties of the translation (specification SpecTranslation).          *)
(***************************************************************************)

\* The provider's JSON has been handed to the translation.
Responded == pc = "responded"

\* choices[0] of the provider's JSON, and whether there is one.
HasChoice == Get(openai_response_data, "choices", << >>) # << >>

FirstChoice == openai_response_data.choices[1]

FirstMessage == Get(FirstChoice, "message", << >>)

GivenToolCalls == IF HasChoice THEN Get(FirstMessage, "tool_calls", << >>) ELSE << >>

\* The stop_reason a streamed frame's message_delta carries.
StreamedStopReasons(f) ==
    { e.stop_reason : e \in { ev \in Range(ProcessParsed(f, FALSE).emit) :
                                ev.type = "message_delta" } }

\* C21: the stop_reason of a non-streaming response is the table's value for
\* choices[0].finish_reason (stop -> end_turn, length -> max_tokens,
\* content_filter -> end_turn, tool_calls -> tool_use), and end_turn for any
\* other, an empty or a missing finish_reason; the message_delta of a
\* streamed frame carries the value of the same table.
C21_FinishReasonMapping ==
    /\ (Responded /\ anthropic_response.kind = "message") =>
          anthropic_response.body.stop_reason =
              (IF HasChoice /\ "finish_reason" \in DOMAIN FirstChoice
               THEN FinishReasonTable(FirstChoice.finish_reason)
               ELSE "end_turn")
    /\ \A f \in JsonFrames :
          (Payload(f).choices = "one" /\ Payload(f).delta = "obj" /\ Payload(f).usage) =>
              StreamedStopReasons(f) =
                  { IF Payload(f).finish = "absent" THEN "end_turn"
                    ELSE FinishReasonTable(Payload(f).finish) }

C21_Witness ==
    /\ Responded
    /\ anthropic_response.kind = "message"
    /\ HasChoice
    /\ Get(FirstChoice, "finish_reason", None) = "length"
    /\ anthropic_response.body.stop_reason = "max_tokens"
    /\ StreamedStopReasons("final") = { "max_tokens" }

\* The dict the text of a JSON object stands for.
ArgumentsObject(arguments) ==
    [ py |-> "dict", items |-> IF arguments = "{}" THEN {} ELSE { << "q", 1 >> } ]

\* One text block for a non-empty content, then one tool_use block per
\* entry of tool_calls.
ExpectedContent ==
    LET text == IF HasChoice /\ "content" \in DOMAIN FirstMessage
                   /\ FirstMessage.content \notin { None, "" }
                THEN << [ type |-> "text", text |-> FirstMessage.content ] >>
                ELSE << >>
        tools == [ i \in 1 .. Len(GivenToolCalls) |->
                     [ type |-> "tool_use", id |-> GivenToolCalls[i].id,
                       name |-> GivenToolCalls[i].function.name,
                       input |-> ArgumentsObject(GivenToolCalls[i].function.arguments) ] ]
    IN  text \o tools

\* C22: the content array of a non-streaming response is one text block with
\* choices[0].message.content if and only if that content is non-empty,
\* followed by one tool_use block per entry of tool_calls, in the same
\* order, with the entry's id, name and parsed arguments.
C22_ContentBlocks ==
    (Responded /\ anthropic_response.kind = "message") =>
        anthropic_response.body.content = ExpectedContent

C22_Witness ==
    /\ Responded
    /\ anthropic_response.kind = "message"
    /\ Len(GivenToolCalls) = 2
    /\ GivenToolCalls[1].id = "call_2"
    /\ GivenToolCalls[2].id = "call_1"
    /\ Len(anthropic_response.body.content) = 3
    /\ anthropic_response.body.content[1].type = "text"
    /\ anthropic_response.body.content[2].id = "call_2"
    /\ anthropic_response.body.content[3].input.items = { << "q", 1 >> }

\* The arguments of some tool call are no JSON.
InvalidArguments ==
    \E i \in 1 .. Len(GivenToolCalls) :
        GivenToolCalls[i].function.arguments = "{\"q\": "

\* C23: when the arguments of a tool call of the provider's JSON are not
\* valid JSON, the handler raises: the client gets the 500 and no Anthropic
\* response, whatever the text and the other tool calls are.
C23_InvalidArgumentsFail ==
    (Responded /\ InvalidArguments) =>
        /\ anthropic_response.kind = "http_exception"
        /\ anthropic_response.status_code = 500
        /\ responses = << >>

C23_Witness ==
    /\ Responded
    /\ Len(GivenToolCalls) = 2
    /\ GivenToolCalls[1].function.arguments = "{}"
    /\ GivenToolCalls[2].function.arguments = "{\"q\": "
    /\ Get(FirstMessage, "content", "") = "Hi"
    /\ anthropic_response.kind = "http_exception"

\* The first response holds text only, and its finish_reason was stop,
\* length, content_filter or one the table does not list.
TextOnly ==
    /\ \A i \in 1 .. Len(responses[1].content) : responses[1].content[i].type = "text"
    /\ responses[1].stop_reason # "tool_use"

\* C24: the Anthropic response of a text-only provider JSON (finish_reason
\* stop, length, content_filter or unknown), taken through
\* anthropic_to_openai_response and translated again, is the first response
\* again: the same content, stop_reason and usage.
C24_RoundTripIdempotent ==
    (Len(responses) = 2 /\ TextOnly) =>
        /\ responses[2].content = responses[1].content
        /\ responses[2].stop_reason = responses[1].stop_reason
        /\ responses[2].usage = responses[1].usage

\* anthropic_to_openai_request has been called.
Translated == pc = "translated"

\* The index of message i of the request in the translated list.
Shift == IF anthropic_request.system \notin { None, "" } THEN 1 ELSE 0

\* C25: the translated request holds the system prompt as one leading message
\* with role system, then one message per Anthropic message, in the original
\* order and with the original role.
C25_MessagesKept ==
    Translated =>
        /\ translated.ok
        /\ Len(translated.messages) = Shift + Len(anthropic_request.messages)
        /\ Shift = 1 =>
              /\ translated.messages[1].role = "system"
              /\ translated.messages[1].content = Str(anthropic_request.system)
        /\ \A i \in 1 .. Len(anthropic_request.messages) :
              translated.messages[Shift + i].role = anthropic_request.messages[i].role

\* One text part per text block and one image_url part per base64 image
\* block, in order; a block of another type gives no part.
RECURSIVE ExpectedParts(_)
ExpectedParts(blocks) ==
    IF blocks = << >> THEN << >>
    ELSE (CASE Head(blocks).type = "text" ->
                  << [ type |-> "text", text |-> Head(blocks).text ] >>
            [] Head(blocks).type = "image" ->
                  << [ type |-> "image_url",
                       image_url |-> [ url |-> "data:image/png;base64,iVBORw0KGgo=" ] ] >>
            [] OTHER -> << >>)
         \o ExpectedParts(Tail(blocks))

\* C26: the translated content of every message whose content is a list of
\* blocks is the array of the text parts and image_url parts of its blocks,
\* in order, also when no block of the message gives a part.
C26_ListContentFlattened ==
    Translated =>
        \A i \in 1 .. Len(anthropic_request.messages) :
            anthropic_request.messages[i].content.py = "list" =>
                /\ translated.ok
                /\ translated.messages[Shift + i].content =
                      List(ExpectedParts(anthropic_request.messages[i].content.value))

(***************************************************************************)
(* The model name posted for POST /messages (specification Spec).          *)
(***************************************************************************)
\* C19: every body posted upstream for a /messages request carries the
\* model the resolver selects for the request, not the name the client sent.
C19_UpstreamModelResolved ==
    \A i \in 1 .. Len(request_data) :
        /\ request_data[i].model =
               map_model(ModelMappingRequest(model, "anthropic", None)).mapped_model
        /\ request_data[i].model # model

(***************************************************************************)
(* The errors a client of POST /messages receives (specification Spec).    *)
(***************************************************************************)
\* C27: every error the client receives is Anthropic-shaped: the body of a
\* failed request is {error: {type, message}}, and an exception inside a
\* stream is handed on as an `event: error`.
C27_ErrorsAnthropicShaped ==
    /\ result.kind = "http500" =>
          /\ "error" \in DOMAIN ErrorResponse(result).body
          /\ { "type", "message" } \subseteq DOMAIN ErrorResponse(result).body.error
    /\ raised # "none" => events[Len(events)].type = "error"

(***************************************************************************)
(* The response of a non-streaming POST /chat/completions (specification   *)
(* SpecResolver).                                                          *)
(***************************************************************************)
\* C28: the JSON a non-streaming /chat/completions returns carries, in its
\* model field, the model name the client asked for, also when the request
\* was posted upstream under another name.
C28_ModelRestored ==
    (pc = "returned" /\ reply.status = 200) => response_data.model = original_model

(***************************************************************************)
(* Two concurrent requests (specification SpecSessions).                   *)
(***************************************************************************)
\* The events a generator yields for what it has read itself, from its
\* first yield on.
RECURSIVE ReplayFrom(_, _, _)
ReplayFrom(read, evs, started) ==
    IF read = << >> THEN evs
    ELSE IF Head(read).what = "raise" THEN OnException(evs)
    ELSE LET step == ProcessChunk(Head(read).chunk, started)
         IN  IF step.raised THEN OnException(evs \o step.emit)
             ELSE IF step.stop THEN evs \o step.emit
             ELSE ReplayFrom(Tail(read), evs \o step.emit, step.started)

OwnEvents(r) ==
    IF sessions[r].pc = "open" THEN << >>
    ELSE ReplayFrom(sessions[r].read, EventsAtOpen, FALSE)

\* C29: in every interleaving of two requests, the events a client has
\* received are the events of its own request's chunks alone; what the other
\* request has read, opened or raised does not show in them.
C29_RequestsIsolated ==
    pc = "sessions" => \A r \in Requests : sessions[r].events = OwnEvents(r)

C29_Witness ==
    /\ pc = "sessions"
    /\ sessions[1].pc = "streaming"
    /\ sessions[1].message_started
    /\ sessions[2].pc = "streaming"
    /\ sessions[2].message_id # sessions[1].message_id
    /\ sessions[1].events = << MessageStart, ContentBlockStart, ContentBlockDelta("Hi") >>
    /\ sessions[2].events = << MessageStart, ContentBlockStart, ContentBlockDelta("Hi") >>

(***************************************************************************)
(* The LRU cache (specification SpecCache).                                *)
(***************************************************************************)
\* The last operation was a set of a new key into a full cache.
SetIntoFull ==
    /\ op.name = "set"
    /\ op.key \notin KeysOf(op.before)
    /\ Len(op.before) = max_size

\* C30: a set of a new key into a cache that holds max_size entries evicts
\* exactly one entry, the one whose last use (its set or its last successful
\* get) is the oldest; every other entry is in the cache as it was.
C30_LruEviction ==
    SetIntoFull =>
        /\ op.evicted = << op.lru >>
        /\ \A e \in Range(op.before) : e.key # op.lru => e \in Range(cache)

(***************************************************************************)
(* Properties of the model-name mapping of one provider's configuration    *)
(* (specification SpecLegacy).                                             *)
(***************************************************************************)
Mapped == pc = "mapped"

\* The tier a requested name stands for: the keywords are looked for in the
\* order haiku, sonnet, opus, in any letter case.
KeywordTier ==
    LET name == lower(claude_model)
    IN  IF Contains(<< "h", "a", "i", "k", "u" >>, name) THEN "small"
        ELSE IF Contains(<< "s", "o", "n", "n", "e", "t" >>, name) THEN "medium"
        ELSE IF Contains(<< "o", "p", "u", "s" >>, name) THEN "big"
        ELSE "medium"

TierFieldOf(tier) ==
    CASE tier = "small" -> "small_model"
      [] tier = "medium" -> "medium_model"
      [] tier = "big" -> "big_model"

KeywordSet(tier) ==
    CASE tier = "small" -> small_patterns
      [] tier = "medium" -> medium_patterns
      [] tier = "big" -> big_patterns

\* The tier field of the configuration has a model in it.
TierFieldSet(tier) ==
    /\ TierFieldOf(tier) \in DOMAIN provider_config
    /\ provider_config[TierFieldOf(tier)] # << >>

MatchesTier(m, tier) == \E p \in KeywordSet(tier) : Contains(p, lower(m))

\* The result is the first entry of model_list that matches the tier's
\* keywords, or the first entry when none matches.
FirstListEntry(tier) ==
    LET l == provider_config.model_list
    IN  /\ l # << >>
        /\ IF \E i \in 1 .. Len(l) : MatchesTier(l[i], tier)
           THEN \E i \in 1 .. Len(l) :
                    /\ MatchesTier(l[i], tier)
                    /\ \A j \in 1 .. i - 1 : ~MatchesTier(l[j], tier)
                    /\ provider_model = l[i]
           ELSE provider_model = l[1]

\* C31 as stated: a name with haiku maps to the small_model of the
\* configuration, with sonnet to medium_model, with opus to big_model and
\* any other name to medium_model; when that field is unset the result is
\* the first model_list entry matching the tier's keyword set, or the first
\* model_list entry if none matches.
C31_LegacyMapping ==
    Mapped =>
        IF TierFieldSet(KeywordTier)
        THEN provider_model = provider_config[TierFieldOf(KeywordTier)]
        ELSE FirstListEntry(KeywordTier)

\* C31, amended: as above, and when the field is unset and model_list is
\* empty the result is gpt-4o-mini for the small tier and gpt-4o for the
\* medium and the big tier.
C31_LegacyMappingWithDefaults ==
    Mapped =>
        IF TierFieldSet(KeywordTier)
        THEN provider_model = provider_config[TierFieldOf(KeywordTier)]
        ELSE IF provider_config.model_list # << >>
        THEN FirstListEntry(KeywordTier)
        ELSE provider_model = IF KeywordTier = "small" THEN << "g", "p", "t", "-", "4", "o", "-", "m", "i", "n", "i" >>
                              ELSE << "g", "p", "t", "-", "4", "o" >>

\* A name with haiku was mapped by a configuration without a small_model
\* and with an empty model_list.
C31_Witness ==
    /\ Mapped
    /\ KeywordTier = "small"
    /\ ~TierFieldSet("small")
    /\ provider_config.model_list = << >>
    /\ provider_model = << "g", "p", "t", "-", "4", "o", "-", "m", "i", "n", "i" >>

(***************************************************************************)
(* Properties of the streaming re-emitter when the upstream fails or ends  *)
(* (specification SpecStream).                                             *)
(***************************************************************************)
\* The upstream answered the streaming request with an error status.
AnsweredNon2xx == status # 0 /\ status \notin 200 .. 299

\* C32: when the upstream answers a streaming request with a non-2xx
\* status, the stream the client gets holds an error event; it does not end
\* with message_start alone.
C32_Non2xxStreamReported ==
    (pc = "closed" /\ AnsweredNon2xx) =>
        /\ ErrorEvent \in Range(events)
        /\ events # << MessageStart >>

\* C33: a stream that ends without an exception has message_stop as its
\* last event, whether [DONE] came in a read with other frames or the
\* upstream closed the body without sending [DONE].
C33_EndsWithMessageStop ==
    (pc = "closed" /\ raised = "none") =>
        /\ events # << >>
        /\ events[Len(events)] = MessageStop

\* The decoded chunks that carry a finish_reason or a usage object.
FinishOrUsageChunks ==
    SelectSeq(chunks, LAMBDA c :
        /\ c.what = "json"
        /\ \/ Payload(c.f).finish # "absent"
           \/ Payload(c.f).usage)

\* C34: every decoded frame that carries a finish_reason or a usage object
\* gives one message_delta event, also a frame with a finish_reason and no
\* usage and a frame with usage and an empty choices array.
C34_FinishOrUsageGivesMessageDelta ==
    LET deltas == SelectSeq(events, LAMBDA e : e.type = "message_delta")
    IN  Len(deltas) = Len(FinishOrUsageChunks)

(***************************************************************************)
(* Properties of the /chat/completions stream (specification               *)
(* SpecChatStream).                                                        *)
(***************************************************************************)
\* The generator ended without an exception on a 200 answer.
ChatStreamEnded == pc = "chat_closed" /\ raised = "none" /\ status = 200

\* C35: every complete upstream frame is forwarded once, unmodified and in
\* upstream order, however the body is cut into reads, a read holding the
\* blank line alone included; two frames are never merged into one.  The
\* line feeds that end a frame are not counted as part of it.
C35_FramesForwardedOnce ==
    ChatStreamEnded =>
        /\ Len(sent) >= Len(frames)
        /\ Len(sent) <= Len(frames) + 2
        /\ \A i \in 1 .. Len(frames) : RStrip(sent[i]) = RStrip(WireOf(frames[i]))

\* A chunk sent to the client is the frame data: [DONE].
IsDoneFrame(chunk) == RStrip(chunk) = << PFX, DONE >>

\* C36: a streaming /chat/completions response holds one data: [DONE]
\* frame, the last one, whether the upstream sent its own [DONE], closed
\* without one or failed; after a failure one error frame stands before it.
C36_OneDoneFrameLast ==
    pc = "chat_closed" =>
        /\ sent # << >>
        /\ IsDoneFrame(sent[Len(sent)])
        /\ Cardinality({ i \in 1 .. Len(sent) : IsDoneFrame(sent[i]) }) = 1
        /\ raised # "none" =>
              /\ Len(sent) >= 2
              /\ sent[Len(sent) - 1] = error_chunk
              /\ Cardinality({ i \in 1 .. Len(sent) : sent[i] = error_chunk }) = 1

(***************************************************************************)
(* Properties of the endpoints (specification SpecEndpoints).              *)
(***************************************************************************)
\* The request carries a key of the api_keys table that is active and has
\* not expired.
ValidApiKey ==
    /\ http_request.credentials \in DOMAIN api_keys
    /\ api_keys[http_request.credentials].is_active
    /\ api_keys[http_request.credentials].expires_at # "past"

\* No active provider has the model as its small, medium or big model.
NotConfigured ==
    \A p \in ProviderIds :
        db[p].is_active =>
            /\ tier_models[p].small_model # http_request.model_id
            /\ tier_models[p].medium_model # http_request.model_id
            /\ tier_models[p].big_model # http_request.model_id

\* C37: GET /models/{model_id}, on either router, for a model id that no
\* active provider has configured answers 404 'Model not found'.
C37_UnknownModelIs404 ==
    (/\ pc = "done"
     /\ http_request.endpoint \in ModelEndpoints
     /\ ValidApiKey
     /\ NotConfigured) =>
        /\ reply.status = 404
        /\ reply.detail = "Model not found"

\* C38: no provider is called or contacted for a request that has not
\* passed the validation of its API key, at any of the endpoints that reach
\* the gateway.
C38_NoProviderCallWithoutApiKey ==
    (/\ http_request.endpoint \in GatewayEndpoints
     /\ ~ValidApiKey) =>
        /\ calls = << >>
        /\ contacts = << >>
        /\ request_data = << >>

(***************************************************************************)
(* The resolver and the preferred tier (specification SpecResolver).       *)
(***************************************************************************)
\* The parts of a mapping the claim names, and the error of a failed one.
Resolution(r) ==
    << r.ok, r.provider_id, r.mapped_model, r.tier_used, r.fallback_used, r.error >>

SetOfPresentKey ==
    /\ op.name = "set"
    /\ op.key \in KeysOf(op.before)

\* C40: a set of a key that is present replaces that key's entry and leaves
\* every other entry in the cache, also when the cache holds max_size
\* entries: it evicts no other key.
C40_OverwriteKeepsOthers ==
    SetOfPresentKey =>
        /\ \E e \in Range(cache) : e.key = op.key /\ ~e.expired
        /\ \A e \in Range(op.before) : e.key # op.key => e \in Range(cache)
        /\ \A i \in 1 .. Len(op.evicted) : op.evicted[i] = op.key

====
